---- MODULE Spec2Model ----
(***************************************************************************)
(* A model of the value and merge core of rust-css-transformer:            *)
(*   - Rect<T>  (src/values/rect.rs): the 1-to-4 value quad shorthand,     *)
(*   - BorderRadiusHandler (src/properties/border_radius.rs): the          *)
(*     vendor-prefix merge engine for the four border-radius corners,      *)
(*   - OutlineHandler (src/properties/outline.rs): the merge of the three  *)
(*     outline parts into the outline shorthand,                           *)
(*   - Position (src/values/position.rs): the two-axis position value, its *)
(*     parser and its serializer,                                          *)
(*   - TransformList and Matrix3d (src/properties/transform.rs): folding a *)
(*     transform list into one matrix, and the inverse and decomposition   *)
(*     of a matrix, and printing a transform list,                         *)
(*   - BorderRadius (src/properties/border_radius.rs): the value of the    *)
(*     border-radius shorthand, its parser and its serializer,             *)
(*   - KeyframesRule (src/rules/keyframes.rs): the serializer of the       *)
(*     @keyframes rule.                                                    *)
(* Each component has its own specification (SpecRect, SpecBorderRadius,   *)
(* SpecOutline, SpecPosition, SpecTransform, SpecBorderRadiusValue,        *)
(* SpecKeyframes); the variables of the other components keep their        *)
(* initial value.  SpecDeclarationBlock runs the two property handlers on  *)
(* the declarations of one block.                                          *)
(***************************************************************************)
EXTENDS Integers, Sequences, FiniteSets, TLC

VARIABLES
    \* ---- Rect<T> parse / to_css round trip -------------------------------
    rInput,       \* the token stream handed to Rect::parse_with
    rPos,         \* the cursor of that stream (1-based index of the next token)
    rResult,      \* Result<Rect<T>>: <<>> before the call, else [ok, rect]
    rText,        \* the tokens Rect::to_css wrote for rResult.rect
    rReparsed,    \* Result of Rect::parse_with on rText
    rPc,          \* "start" -> "parsed" -> "printed" -> "reparsed"
    \* ---- BorderRadiusHandler ---------------------------------------------
    targets,      \* Option<Browsers>
    top_left,     \* Option<(Size2D<LengthPercentage>, VendorPrefix)>
    top_right,
    bottom_left,
    bottom_right,
    logical,      \* Vec<Property>: side buffer of flow-relative corners
    decls,        \* Vec<Property>: output buffer
    last,         \* the most recent call on the handler and what it returned
    ncalls,       \* number of handle_property calls made so far
    block,        \* the declarations handed in since the finalize before the last call
    \* ---- OutlineHandler --------------------------------------------------
    width,        \* Option<BorderSideWidth>
    style,        \* Option<OutlineStyle>
    color,        \* Option<CssColor>
    oBlock,       \* the declarations handed in since the finalize before the last call
    oLast,        \* the most recent call on the handler and what it returned
    oCalls,       \* number of handle_property calls made so far
    \* ---- Position parse / to_css ------------------------------------------
    pInput,       \* the token stream handed to Position::parse
    pResult,      \* Result<Position> of that call and the cursor it left
    pValue,       \* Option<Position>: the value in hand (parsed, or built by code)
    pMinify,      \* Printer::minify of the printer to_css wrote to
    pText,        \* the tokens Position::to_css wrote for pValue
    pReparsed,    \* Result of Position::parse on pText
    pCenter,      \* Option<bool>: what Position::is_center returned for pValue
    pPc,          \* "start" -> "parsed" | "built" -> "printed" -> "reparsed"
                  \*                              -> "asked"
    \* ---- TransformList / Matrix3d ----------------------------------------
    tList,        \* the TransformList (Vec<Transform>) in hand
    tMatrix,      \* Option<Matrix3d>: what TransformList::to_matrix returned
    tMinify,      \* Printer::minify of the printer to_css wrote to
    tText,        \* what to_css wrote: the text, which candidate, the candidates
    tSelf,        \* the Matrix3d in hand
    tInverse,     \* Option: what Matrix3d::inverse returned
    tDecomposed,  \* Option<TransformList>: what Matrix3d::decompose returned
    tPc,          \* "start" -> "folded" -> "printed" | "written"
                  \*         | "matrix" -> "inverted" -> "decomposed"
    \* ---- BorderRadius parse / to_css --------------------------------------
    bInput,       \* the token stream handed to BorderRadius::parse
    bResult,      \* Result<BorderRadius> of that call and the cursor it left
    bText,        \* the tokens BorderRadius::to_css wrote for the parsed value
    bReparsed,    \* Result of BorderRadius::parse on bText
    bPc,          \* "start" -> "parsed" -> "printed" -> "reparsed"
    \* ---- KeyframesRule to_css ---------------------------------------------
    kRule,        \* the KeyframesRule in hand
    kMinify,      \* Printer::minify of the printer to_css wrote to
    kText,        \* the pieces KeyframesRule::to_css wrote
    kPc           \* "start" -> "printed"

rectVars == <<rInput, rPos, rResult, rText, rReparsed, rPc>>
brVars == <<targets, top_left, top_right, bottom_left, bottom_right,
            logical, decls, last, ncalls, block>>
outlineVars == <<width, style, color, oBlock, oLast, oCalls>>
posVars == <<pInput, pResult, pValue, pMinify, pText, pReparsed, pCenter, pPc>>
trVars == <<tList, tMatrix, tMinify, tText, tSelf, tInverse, tDecomposed, tPc>>
radiusVars == <<bInput, bResult, bText, bReparsed, bPc>>
kfVars == <<kRule, kMinify, kText, kPc>>
vars == <<rectVars, brVars, outlineVars, posVars, trVars, radiusVars, kfVars>>

(***************************************************************************)
(* Bounds of the model.                                                    *)
(***************************************************************************)
\* number of distinct inner values (lengths) the inputs are drawn from
NumVals == 3
\* longest token stream given to Rect::parse_with
MaxTokens == 5
\* number of handle_property calls made on one handler
MaxDecls == 3
\* number of handle_property calls made on one OutlineHandler
MaxOutlineDecls == 3
\* longest token stream given to Position::parse
MaxPosTokens == 4
\* longest TransformList that is folded
MaxTransforms == 3

Vals == 1..NumVals

\* Option<T>: None is the empty sequence, Some(x) the one-element sequence.
None == <<>>
Some(x) == <<x>>
IsSome(o) == Len(o) = 1
Unwrap(o) == o[1]

(***************************************************************************)
(* Rect<T>.  The element type T is a parameter of the source; its tokens   *)
(* are modelled by the values themselves (a token v in Vals parses to the  *)
(* value v and the value v prints as the token v), and 0 is any token      *)
(* T::parse rejects.  The " " separators to_css writes are whitespace,     *)
(* which the tokenizer skips, and are not recorded.                        *)
(***************************************************************************)
Tokens == 0..NumVals

\* the inner `parse` closure: one token of T at the cursor
InnerParse(input, pos) ==
    IF pos <= Len(input) /\ input[pos] \in Vals
    THEN [ok |-> TRUE, val |-> input[pos], pos |-> pos + 1]
    ELSE [ok |-> FALSE, val |-> 0, pos |-> pos]

\* Parser::try_parse: the cursor is rewound when the closure fails
TryParse(input, pos) ==
    LET r == InnerParse(input, pos)
    IN IF r.ok THEN r ELSE [ok |-> FALSE, val |-> 0, pos |-> pos]

RectNew(first, second, third, fourth) == <<first, second, third, fourth>>

RectAll(v) == RectNew(v, v, v, v)

ParseWithBadThree(input, pos) ==
    LET first == InnerParse(input, pos)
        second == TryParse(input, first.pos)
        third == TryParse(input, second.pos)
        fourth == TryParse(input, third.pos)
    IN IF ~first.ok THEN [ok |-> FALSE, rect |-> <<>>, pos |-> first.pos]
       ELSE IF ~second.ok
       THEN [ok |-> TRUE, pos |-> second.pos,
             rect |-> RectNew(first.val, first.val, first.val, first.val)]
       ELSE IF ~third.ok
       THEN [ok |-> TRUE, pos |-> third.pos,
             rect |-> RectNew(first.val, second.val, first.val, second.val)]
       ELSE IF ~fourth.ok
       THEN [ok |-> TRUE, pos |-> fourth.pos,
             rect |-> RectNew(first.val, second.val, third.val, first.val)]
       ELSE [ok |-> TRUE, pos |-> fourth.pos,
             rect |-> RectNew(first.val, second.val, third.val, fourth.val)]

\* Rect::parse_with
ParseWith(input, pos) ==
    LET first == InnerParse(input, pos)
        second == TryParse(input, first.pos)
        third == TryParse(input, second.pos)
        fourth == TryParse(input, third.pos)
    IN IF ~first.ok THEN [ok |-> FALSE, rect |-> <<>>, pos |-> first.pos]
       ELSE IF ~second.ok
       THEN [ok |-> TRUE, pos |-> second.pos,
             rect |-> RectNew(first.val, first.val, first.val, first.val)]
       ELSE IF ~third.ok
       THEN [ok |-> TRUE, pos |-> third.pos,
             rect |-> RectNew(first.val, second.val, first.val, second.val)]
       ELSE IF ~fourth.ok
       THEN [ok |-> TRUE, pos |-> fourth.pos,
             rect |-> RectNew(first.val, second.val, third.val, second.val)]
       ELSE [ok |-> TRUE, pos |-> fourth.pos,
             rect |-> RectNew(first.val, second.val, third.val, fourth.val)]

RectToCssNoThree(rect) ==
    LET same_vertical == rect[1] = rect[3]
        same_horizontal == rect[2] = rect[4]
    IN IF same_vertical /\ same_horizontal /\ rect[1] = rect[2]
       THEN <<rect[1]>>
       ELSE IF same_vertical /\ same_horizontal
       THEN <<rect[1], rect[2]>>
       ELSE <<rect[1], rect[2], rect[3], rect[4]>>

\* Rect::to_css (self.0 .. self.3 are rect[1] .. rect[4])
RectToCss(rect) ==
    LET same_vertical == rect[1] = rect[3]
        same_horizontal == rect[2] = rect[4]
    IN IF same_vertical /\ same_horizontal /\ rect[1] = rect[2]
       THEN <<rect[1]>>
       ELSE IF same_vertical /\ same_horizontal
       THEN <<rect[1], rect[2]>>
       ELSE IF same_horizontal
       THEN <<rect[1], rect[2], rect[3]>>
       ELSE <<rect[1], rect[2], rect[3], rect[4]>>

RECURSIVE SeqsUpTo(_, _)
SeqsUpTo(S, n) ==
    IF n = 0 THEN {<<>>}
    ELSE LET shorter == SeqsUpTo(S, n - 1)
         IN shorter \cup {Append(s, x) : s \in {t \in shorter : Len(t) = n - 1}, x \in S}

RectInit ==
    /\ rInput \in SeqsUpTo(Tokens, MaxTokens)
    /\ rPos = 1
    /\ rResult = <<>>
    /\ rText = <<>>
    /\ rReparsed = <<>>
    /\ rPc = "start"

\* a caller runs Rect::parse_with on the stream
RectParse ==
    /\ rPc = "start"
    /\ LET r == ParseWith(rInput, rPos)
       IN /\ rResult' = [ok |-> r.ok, rect |-> r.rect]
          \* `parse(input)?` at rect.rs:32 is not wrapped in try_parse: where a
          \* failing T::parse leaves the cursor is up to T
          /\ IF r.ok THEN rPos' = r.pos
             ELSE rPos' \in {p \in {r.pos, r.pos + 1} : p <= Len(rInput) + 1}
    /\ rPc' = "parsed"
    /\ UNCHANGED <<rInput, rText, rReparsed>>

\* the parsed quad is serialized
RectPrint ==
    /\ rPc = "parsed"
    /\ rResult.ok
    /\ rText' = RectToCss(rResult.rect)
    /\ rPc' = "printed"
    /\ UNCHANGED <<rInput, rPos, rResult, rReparsed>>

\* the serialized text is parsed again
RectReparse ==
    /\ rPc = "printed"
    /\ LET r == ParseWith(rText, 1)
       IN rReparsed' = [ok |-> r.ok, rect |-> r.rect, pos |-> r.pos]
    /\ rPc' = "reparsed"
    /\ UNCHANGED <<rInput, rPos, rResult, rText>>


(***************************************************************************)
(* BorderRadiusHandler.                                                    *)
(* VendorPrefix is a bit-flag set; it is modelled by the set of its bits,  *)
(* so that & is \cap, |= is \cup, remove is \ and contains is \subseteq.   *)
(***************************************************************************)
PrefixBits == {"None", "WebKit"}
VendorPrefixes == SUBSET PrefixBits \ {{}}

\* VendorPrefix::contains (bitflags): every bit of `other` is set in `prefixes`
Contains(prefixes, other) == other \subseteq prefixes

\* browser target sets a handler can be constructed with
Browsers == {"legacy"}

\* Feature::prefixes_for: the prefixes the targets still need for a feature
PrefixesFor(feature, browsers) == {"None", "WebKit"}

Corners == {"top_left", "top_right", "bottom_left", "bottom_right"}

\* the Property variant of each corner field
LonghandKind(prop) ==
    CASE prop = "top_left" -> "BorderTopLeftRadius"
      [] prop = "top_right" -> "BorderTopRightRadius"
      [] prop = "bottom_left" -> "BorderBottomLeftRadius"
      [] prop = "bottom_right" -> "BorderBottomRightRadius"

LogicalKinds == {"BorderStartStartRadius", "BorderStartEndRadius",
                 "BorderEndStartRadius", "BorderEndEndRadius"}

\* struct BorderRadius
BorderRadius(tl, tr, bl, br) ==
    [top_left |-> tl, top_right |-> tr, bottom_left |-> bl, bottom_right |-> br]

\* enum Property, the variants the handler sees
Longhand(prop, val, vp) == [kind |-> LonghandKind(prop), val |-> val, vp |-> vp]
Shorthand(val, vp) == [kind |-> "BorderRadius", val |-> val, vp |-> vp]
Logical(kind, val) == [kind |-> kind, val |-> val]
Unowned(val) == [kind |-> "OutlineColor", val |-> val]

\* Size2D<LengthPercentage> values the declarations carry
Radii == {"1px", "2px"}

\* The declarations a block hands to the handler.  Shorthands are the ones
\* BorderRadius::parse builds from one or two lengths; the handler reads neither
\* the kind nor the value of a flow-relative or foreign declaration, so one
\* value of each is enough.
Longhands == {Longhand(p, v, vp) : p \in Corners, v \in Radii, vp \in VendorPrefixes}
Shorthands == {Shorthand(BorderRadius(a, b, a, b), vp) :
                  a \in Radii, b \in Radii, vp \in VendorPrefixes}
Logicals == {Logical(k, "1px") : k \in LogicalKinds}
Unowneds == {Unowned("red")}

\* the handler object (`self`) as a record of its fields
Self ==
    [targets |-> targets, top_left |-> top_left, top_right |-> top_right,
     bottom_left |-> bottom_left, bottom_right |-> bottom_right,
     logical |-> logical, decls |-> decls]

\* BorderRadiusHandler::new
New(t) ==
    [targets |-> t, top_left |-> None, top_right |-> None, bottom_left |-> None,
     bottom_right |-> None, logical |-> <<>>, decls |-> <<>>]

\* the single_property! macro of flush: `key` is the taken corner after the
\* shorthand step, `d` the output buffer so far
SingleProperty(h, d, prop, key) ==
    IF IsSome(key) /\ Unwrap(key)[2] # {}
    THEN LET val == Unwrap(key)[1]
             vp == IF Contains(Unwrap(key)[2], {"None"}) /\ IsSome(h.targets)
                   THEN PrefixesFor(LonghandKind(prop), Unwrap(h.targets))
                   ELSE Unwrap(key)[2]
         IN Append(d, Longhand(prop, val, vp))
    ELSE d

\* flush with `|` in place of `&` when the common prefixes are computed
FlushUnionPrefix(h) ==
    LET all == IsSome(h.top_left) /\ IsSome(h.top_right)
                 /\ IsSome(h.bottom_left) /\ IsSome(h.bottom_right)
        intersection ==
            IF all
            THEN Unwrap(h.top_left)[2] \cup Unwrap(h.top_right)[2]
                   \cup Unwrap(h.bottom_left)[2] \cup Unwrap(h.bottom_right)[2]
            ELSE {}
        combined == all /\ intersection # {}
        prefix == IF Contains(intersection, {"None"}) /\ IsSome(h.targets)
                  THEN PrefixesFor("BorderRadius", Unwrap(h.targets))
                  ELSE intersection
        d0 == h.decls \o h.logical
        d1 == IF combined
              THEN Append(d0, Shorthand(BorderRadius(Unwrap(h.top_left)[1],
                                                     Unwrap(h.top_right)[1],
                                                     Unwrap(h.bottom_left)[1],
                                                     Unwrap(h.bottom_right)[1]),
                                        prefix))
              ELSE d0
        \* tl_prefix.remove(intersection) etc.; only reached inside `combined`
        Rem(o) == IF combined THEN Some(<<Unwrap(o)[1], Unwrap(o)[2] \ intersection>>)
                  ELSE o
        d2 == SingleProperty(h, d1, "top_left", Rem(h.top_left))
        d3 == SingleProperty(h, d2, "top_right", Rem(h.top_right))
        d4 == SingleProperty(h, d3, "bottom_left", Rem(h.bottom_left))
        d5 == SingleProperty(h, d4, "bottom_right", Rem(h.bottom_right))
    IN [h EXCEPT !.top_left = None, !.top_right = None, !.bottom_left = None,
                 !.bottom_right = None, !.logical = <<>>, !.decls = d5]

\* flush without the four `remove(intersection)` calls
FlushKeepPrefix(h) ==
    LET all == IsSome(h.top_left) /\ IsSome(h.top_right)
                 /\ IsSome(h.bottom_left) /\ IsSome(h.bottom_right)
        intersection ==
            IF all
            THEN Unwrap(h.top_left)[2] \cap Unwrap(h.top_right)[2]
                   \cap Unwrap(h.bottom_left)[2] \cap Unwrap(h.bottom_right)[2]
            ELSE {}
        combined == all /\ intersection # {}
        prefix == IF Contains(intersection, {"None"}) /\ IsSome(h.targets)
                  THEN PrefixesFor("BorderRadius", Unwrap(h.targets))
                  ELSE intersection
        d0 == h.decls \o h.logical
        d1 == IF combined
              THEN Append(d0, Shorthand(BorderRadius(Unwrap(h.top_left)[1],
                                                     Unwrap(h.top_right)[1],
                                                     Unwrap(h.bottom_left)[1],
                                                     Unwrap(h.bottom_right)[1]),
                                        prefix))
              ELSE d0
        \* tl_prefix.remove(intersection) etc.; only reached inside `combined`
        Rem(o) == o
        d2 == SingleProperty(h, d1, "top_left", Rem(h.top_left))
        d3 == SingleProperty(h, d2, "top_right", Rem(h.top_right))
        d4 == SingleProperty(h, d3, "bottom_left", Rem(h.bottom_left))
        d5 == SingleProperty(h, d4, "bottom_right", Rem(h.bottom_right))
    IN [h EXCEPT !.top_left = None, !.top_right = None, !.bottom_left = None,
                 !.bottom_right = None, !.logical = <<>>, !.decls = d5]

\* flush with the targets lookup of the shorthand left out
FlushNoTargets(h) ==
    LET all == IsSome(h.top_left) /\ IsSome(h.top_right)
                 /\ IsSome(h.bottom_left) /\ IsSome(h.bottom_right)
        intersection ==
            IF all
            THEN Unwrap(h.top_left)[2] \cap Unwrap(h.top_right)[2]
                   \cap Unwrap(h.bottom_left)[2] \cap Unwrap(h.bottom_right)[2]
            ELSE {}
        combined == all /\ intersection # {}
        prefix == intersection
        d0 == h.decls \o h.logical
        d1 == IF combined
              THEN Append(d0, Shorthand(BorderRadius(Unwrap(h.top_left)[1],
                                                     Unwrap(h.top_right)[1],
                                                     Unwrap(h.bottom_left)[1],
                                                     Unwrap(h.bottom_right)[1]),
                                        prefix))
              ELSE d0
        \* tl_prefix.remove(intersection) etc.; only reached inside `combined`
        Rem(o) == IF combined THEN Some(<<Unwrap(o)[1], Unwrap(o)[2] \ intersection>>)
                  ELSE o
        d2 == SingleProperty(h, d1, "top_left", Rem(h.top_left))
        d3 == SingleProperty(h, d2, "top_right", Rem(h.top_right))
        d4 == SingleProperty(h, d3, "bottom_left", Rem(h.bottom_left))
        d5 == SingleProperty(h, d4, "bottom_right", Rem(h.bottom_right))
    IN [h EXCEPT !.top_left = None, !.top_right = None, !.bottom_left = None,
                 !.bottom_right = None, !.logical = <<>>, !.decls = d5]

\* BorderRadiusHandler::flush
Flush(h) ==
    LET all == IsSome(h.top_left) /\ IsSome(h.top_right)
                 /\ IsSome(h.bottom_left) /\ IsSome(h.bottom_right)
        intersection ==
            IF all
            THEN Unwrap(h.top_left)[2] \cap Unwrap(h.top_right)[2]
                   \cap Unwrap(h.bottom_left)[2] \cap Unwrap(h.bottom_right)[2]
            ELSE {}
        combined == all /\ intersection # {}
        prefix == IF Contains(intersection, {"None"}) /\ IsSome(h.targets)
                  THEN PrefixesFor("BorderRadius", Unwrap(h.targets))
                  ELSE intersection
        d0 == h.decls \o h.logical
        d1 == IF combined
              THEN Append(d0, Shorthand(BorderRadius(Unwrap(h.top_left)[1],
                                                     Unwrap(h.top_right)[1],
                                                     Unwrap(h.bottom_left)[1],
                                                     Unwrap(h.bottom_right)[1]),
                                        prefix))
              ELSE d0
        \* tl_prefix.remove(intersection) etc.; only reached inside `combined`
        Rem(o) == IF combined THEN Some(<<Unwrap(o)[1], Unwrap(o)[2] \ intersection>>)
                  ELSE o
        d2 == SingleProperty(h, d1, "top_left", Rem(h.top_left))
        d3 == SingleProperty(h, d2, "top_right", Rem(h.top_right))
        d4 == SingleProperty(h, d3, "bottom_left", Rem(h.bottom_left))
        d5 == SingleProperty(h, d4, "bottom_right", Rem(h.bottom_right))
    IN [h EXCEPT !.top_left = None, !.top_right = None, !.bottom_left = None,
                 !.bottom_right = None, !.logical = <<>>, !.decls = d5]

\* property! with the prefix test of the flush condition left out
PropertyMacroNoContains(h, prop, val, vp) ==
    LET h1 == IF IsSome(h[prop]) /\ Unwrap(h[prop])[1] # val
              THEN Flush(h)
              ELSE h
    IN IF IsSome(h1[prop])
       THEN [h1 EXCEPT ![prop] = Some(<<val, Unwrap(h1[prop])[2] \cup vp>>)]
       ELSE [h1 EXCEPT ![prop] = Some(<<val, vp>>)]

\* property! with `*prefixes = *vp` in place of `*prefixes |= *vp`
PropertyMacroAssignPrefix(h, prop, val, vp) ==
    LET h1 == IF IsSome(h[prop]) /\ Unwrap(h[prop])[1] # val
                 /\ ~Contains(Unwrap(h[prop])[2], vp)
              THEN Flush(h)
              ELSE h
    IN [h1 EXCEPT ![prop] = Some(<<val, vp>>)]

\* property! without the flush: the pending value is overwritten in place
PropertyMacroNoFlush(h, prop, val, vp) ==
    IF IsSome(h[prop])
    THEN [h EXCEPT ![prop] = Some(<<val, Unwrap(h[prop])[2] \cup vp>>)]
    ELSE [h EXCEPT ![prop] = Some(<<val, vp>>)]

\* the property! macro of handle_property
PropertyMacro(h, prop, val, vp) ==
    LET h1 == IF IsSome(h[prop]) /\ Unwrap(h[prop])[1] # val
                 /\ ~Contains(Unwrap(h[prop])[2], vp)
              THEN Flush(h)
              ELSE h
    IN IF IsSome(h1[prop])
       THEN [h1 EXCEPT ![prop] = Some(<<val, Unwrap(h1[prop])[2] \cup vp>>)]
       ELSE [h1 EXCEPT ![prop] = Some(<<val, vp>>)]

CornerOfKind(kind) == CHOOSE p \in Corners : LonghandKind(p) = kind

\* the four property! calls of the shorthand arm, one after the other
ShorthandArm(h0, val, vp) ==
    CHOOSE h4 \in
        {PropertyMacro(h3, "bottom_right", val.bottom_right, vp) :
            h3 \in {PropertyMacro(h2, "bottom_left", val.bottom_left, vp) :
                h2 \in {PropertyMacro(h1, "top_right", val.top_right, vp) :
                    h1 \in {PropertyMacro(h0, "top_left", val.top_left, vp)}}}} : TRUE

\* handle_property without `self.logical.clear()` in the shorthand arm
HandlePropertyOpKeepLogical(h, property) ==
    IF property.kind \in {LonghandKind(p) : p \in Corners}
    THEN [self |-> PropertyMacro(h, CornerOfKind(property.kind), property.val, property.vp),
          ret |-> TRUE]
    ELSE IF property.kind \in LogicalKinds
    THEN [self |-> [Flush(h) EXCEPT !.logical = Append(@, property)], ret |-> TRUE]
    ELSE IF property.kind = "BorderRadius"
    THEN [self |-> ShorthandArm(h, property.val, property.vp), ret |-> TRUE]
    ELSE [self |-> h, ret |-> FALSE]

\* handle_property without `self.flush()` in the flow-relative arm
HandlePropertyOpLogicalNoFlush(h, property) ==
    IF property.kind \in {LonghandKind(p) : p \in Corners}
    THEN [self |-> PropertyMacro(h, CornerOfKind(property.kind), property.val, property.vp),
          ret |-> TRUE]
    ELSE IF property.kind \in LogicalKinds
    THEN [self |-> [h EXCEPT !.logical = Append(@, property)], ret |-> TRUE]
    ELSE IF property.kind = "BorderRadius"
    THEN [self |-> ShorthandArm([h EXCEPT !.logical = <<>>], property.val, property.vp),
          ret |-> TRUE]
    ELSE [self |-> h, ret |-> FALSE]

\* BorderRadiusHandler::handle_property: the new handler and the returned flag
HandlePropertyOp(h, property) ==
    IF property.kind \in {LonghandKind(p) : p \in Corners}
    THEN [self |-> PropertyMacro(h, CornerOfKind(property.kind), property.val, property.vp),
          ret |-> TRUE]
    ELSE IF property.kind \in LogicalKinds
    THEN [self |-> [Flush(h) EXCEPT !.logical = Append(@, property)], ret |-> TRUE]
    ELSE IF property.kind = "BorderRadius"
    THEN [self |-> ShorthandArm([h EXCEPT !.logical = <<>>], property.val, property.vp),
          ret |-> TRUE]
    ELSE [self |-> h, ret |-> FALSE]

\* finalize that copies the output buffer instead of taking it
FinalizeOpKeepDecls(h) ==
    LET f == Flush(h)
    IN [self |-> f, ret |-> f.decls]

\* BorderRadiusHandler::finalize: the handler left behind and the returned Vec
FinalizeOp(h) ==
    LET f == Flush(h)
    IN [self |-> [f EXCEPT !.decls = <<>>], ret |-> f.decls]

BorderRadiusInit ==
    /\ targets \in {None} \cup {Some(b) : b \in Browsers}
    /\ top_left = None
    /\ top_right = None
    /\ bottom_left = None
    /\ bottom_right = None
    /\ logical = <<>>
    /\ decls = <<>>
    /\ last = [op |-> "new", arg |-> None, pre |-> New(targets), handled |-> FALSE, out |-> <<>>]
    /\ ncalls = 0
    /\ block = <<>>

Store(h) ==
    /\ top_left' = h.top_left
    /\ top_right' = h.top_right
    /\ bottom_left' = h.bottom_left
    /\ bottom_right' = h.bottom_right
    /\ logical' = h.logical
    /\ decls' = h.decls
    /\ UNCHANGED targets

\* the declarations of the block being handled: a finalize ends a block
Block == IF last.op = "finalize" THEN <<>> ELSE block

Handle(property) ==
    \E r \in {HandlePropertyOp(Self, property)} :
       /\ Store(r.self)
       /\ block' = Append(Block, property)
       /\ last' = [op |-> "handle_property", arg |-> Some(property), pre |-> Self,
                   handled |-> r.ret, out |-> <<>>]
       /\ ncalls' = ncalls + 1

\* the caller hands the next declaration of the block to the handler
HandleProperty ==
    /\ ncalls < MaxDecls
    /\ \/ \E property \in Longhands : Handle(property)
       \/ \E property \in Shorthands : Handle(property)
       \/ \E property \in Logicals : Handle(property)
       \/ \E property \in Unowneds : Handle(property)

\* the caller ends the block
Finalize ==
    \E r \in {FinalizeOp(Self)} :
       /\ Store(r.self)
       /\ last' = [op |-> "finalize", arg |-> None, pre |-> Self,
                   handled |-> FALSE, out |-> r.ret]
       /\ block' = Block
       /\ UNCHANGED ncalls

(***************************************************************************)
(* OutlineHandler.  A Property is a record with the variant name in `kind` *)
(* and the payload in `val`; the Outline payload is a GenericBorder.       *)
(***************************************************************************)
GenericBorder(w, st, c) == [width |-> w, style |-> st, color |-> c]
OutlineColor(val) == [kind |-> "OutlineColor", val |-> val]
OutlineStyle(val) == [kind |-> "OutlineStyle", val |-> val]
OutlineWidth(val) == [kind |-> "OutlineWidth", val |-> val]
Outline(val) == [kind |-> "Outline", val |-> val]

\* the values the declarations carry
Widths == {"1px", "2px"}
Styles == {"solid", "auto"}
Colors == {"red", "blue"}

OutlineLonghands ==
    {OutlineColor(c) : c \in Colors} \cup {OutlineStyle(st) : st \in Styles}
        \cup {OutlineWidth(w) : w \in Widths}
OutlineShorthands ==
    {Outline(GenericBorder(w, st, c)) : w \in Widths, st \in Styles, c \in Colors}
\* a property the handler does not own (the `_` arm)
OutlineUnowneds == {Longhand("top_left", "1px", {"None"})}

\* the handler object (`self`) as a record of its fields
OutlineSelf == [width |-> width, style |-> style, color |-> color]

\* OutlineHandler::default
OutlineDefault == [width |-> None, style |-> None, color |-> None]

\* handle_property in which a longhand keeps a value that is already pending
OutlineHandlePropertyOpKeepFirst(h, property) ==
    CASE property.kind = "OutlineColor" ->
            [self |-> IF IsSome(h.color) THEN h
                      ELSE [h EXCEPT !.color = Some(property.val)], ret |-> TRUE]
      [] property.kind = "OutlineStyle" ->
            [self |-> IF IsSome(h.style) THEN h
                      ELSE [h EXCEPT !.style = Some(property.val)], ret |-> TRUE]
      [] property.kind = "OutlineWidth" ->
            [self |-> IF IsSome(h.width) THEN h
                      ELSE [h EXCEPT !.width = Some(property.val)], ret |-> TRUE]
      [] property.kind = "Outline" ->
            [self |-> [h EXCEPT !.color = Some(property.val.color),
                                !.style = Some(property.val.style),
                                !.width = Some(property.val.width)],
             ret |-> TRUE]
      [] OTHER -> [self |-> h, ret |-> FALSE]

\* handle_property that drops the pending parts on a property it does not own
OutlineHandlePropertyOpResetOnOther(h, property) ==
    CASE property.kind = "OutlineColor" ->
            [self |-> [h EXCEPT !.color = Some(property.val)], ret |-> TRUE]
      [] property.kind = "OutlineStyle" ->
            [self |-> [h EXCEPT !.style = Some(property.val)], ret |-> TRUE]
      [] property.kind = "OutlineWidth" ->
            [self |-> [h EXCEPT !.width = Some(property.val)], ret |-> TRUE]
      [] property.kind = "Outline" ->
            [self |-> [h EXCEPT !.color = Some(property.val.color),
                                !.style = Some(property.val.style),
                                !.width = Some(property.val.width)],
             ret |-> TRUE]
      [] OTHER -> [self |-> OutlineDefault, ret |-> FALSE]

\* OutlineHandler::handle_property: the handler left behind and the returned bool
OutlineHandlePropertyOp(h, property) ==
    CASE property.kind = "OutlineColor" ->
            [self |-> [h EXCEPT !.color = Some(property.val)], ret |-> TRUE]
      [] property.kind = "OutlineStyle" ->
            [self |-> [h EXCEPT !.style = Some(property.val)], ret |-> TRUE]
      [] property.kind = "OutlineWidth" ->
            [self |-> [h EXCEPT !.width = Some(property.val)], ret |-> TRUE]
      [] property.kind = "Outline" ->
            [self |-> [h EXCEPT !.color = Some(property.val.color),
                                !.style = Some(property.val.style),
                                !.width = Some(property.val.width)],
             ret |-> TRUE]
      [] OTHER -> [self |-> h, ret |-> FALSE]

\* OutlineHandler::finalize: the handler left behind and the returned Vec
OutlineFinalizeOp(h) ==
    LET d0 == <<>>
        d1 == IF IsSome(h.color) THEN Append(d0, OutlineColor(Unwrap(h.color))) ELSE d0
        d2 == IF IsSome(h.style) THEN Append(d1, OutlineStyle(Unwrap(h.style))) ELSE d1
        d3 == IF IsSome(h.width) THEN Append(d2, OutlineWidth(Unwrap(h.width))) ELSE d2
    IN [self |-> OutlineDefault,
        ret |-> IF IsSome(h.width) /\ IsSome(h.style) /\ IsSome(h.color)
                THEN <<Outline(GenericBorder(Unwrap(h.width), Unwrap(h.style),
                                             Unwrap(h.color)))>>
                ELSE d3]

OutlineInit ==
    /\ width = None
    /\ style = None
    /\ color = None
    /\ oBlock = <<>>
    /\ oLast = [op |-> "new", arg |-> None, pre |-> OutlineDefault,
                handled |-> FALSE, out |-> <<>>]
    /\ oCalls = 0

OutlineStore(h) ==
    /\ width' = h.width
    /\ style' = h.style
    /\ color' = h.color

\* the declarations of the block that is open once the next call is made
OutlineBlock == IF oLast.op = "finalize" THEN <<>> ELSE oBlock

OutlineHandle(property) ==
    \E r \in {OutlineHandlePropertyOp(OutlineSelf, property)} :
       /\ OutlineStore(r.self)
       /\ oBlock' = Append(OutlineBlock, property)
       /\ oLast' = [op |-> "handle_property", arg |-> Some(property),
                    pre |-> OutlineSelf, handled |-> r.ret, out |-> <<>>]
       /\ oCalls' = oCalls + 1

\* the caller hands the next declaration of the block to the handler
OutlineHandleProperty ==
    /\ oCalls < MaxOutlineDecls
    /\ \/ \E property \in OutlineLonghands : OutlineHandle(property)
       \/ \E property \in OutlineShorthands : OutlineHandle(property)
       \/ \E property \in OutlineUnowneds : OutlineHandle(property)

\* the caller ends the block
OutlineFinalize ==
    \E r \in {OutlineFinalizeOp(OutlineSelf)} :
       /\ OutlineStore(r.self)
       /\ oBlock' = OutlineBlock
       /\ oLast' = [op |-> "finalize", arg |-> None, pre |-> OutlineSelf,
                    handled |-> FALSE, out |-> r.ret]
       /\ UNCHANGED oCalls

(***************************************************************************)
(* Position.  A PositionComponent is a record [tag, side, lp]: Center,     *)
(* Length(lp) or Side(side, Option lp); fields a variant lacks hold "" and *)
(* None.  A LengthPercentage is modelled by its token (its own parse and   *)
(* to_css are not part of position.rs); "50%" is Percentage(0.5).  The     *)
(* spaces to_css writes are whitespace and are not recorded.               *)
(***************************************************************************)
LengthPercentages == {"10px", "50%"}
HorizontalPositionKeyword == {"left", "right"}
VerticalPositionKeyword == {"top", "bottom"}
PosTokens ==
    {"center"} \cup LengthPercentages \cup HorizontalPositionKeyword
        \cup VerticalPositionKeyword

Center == [tag |-> "Center", side |-> "", lp |-> None]
Length(lp) == [tag |-> "Length", side |-> "", lp |-> Some(lp)]
Side(s, lp) == [tag |-> "Side", side |-> s, lp |-> lp]
Position(x, y) == [x |-> x, y |-> y]

\* every PositionComponent<S> over the keywords S
PositionComponents(S) ==
    {Center} \cup {Length(lp) : lp \in LengthPercentages}
        \cup {Side(k, None) : k \in S}
        \cup {Side(k, Some(lp)) : k \in S, lp \in LengthPercentages}

\* every Position the pub fields x and y admit
Positions ==
    {Position(x, y) : x \in PositionComponents(HorizontalPositionKeyword),
                      y \in PositionComponents(VerticalPositionKeyword)}

\* Position::center
PositionCenter == Position(Center, Center)

\* Position::is_center
IsCenter(self) ==
    self = PositionCenter \/ self = Position(Length("50%"), Length("50%"))

\* Result<T> together with the cursor the call left
Ok(v, pos) == [ok |-> TRUE, val |-> Some(v), pos |-> pos]
Err(pos) == [ok |-> FALSE, val |-> None, pos |-> pos]

\* the next token of the stream, "" at its end
Tok(input, pos) == IF pos <= Len(input) THEN input[pos] ELSE ""

\* input.try_parse(LengthPercentage::parse).ok() and the cursor after it
ParseLp(input, pos) ==
    IF Tok(input, pos) \in LengthPercentages
    THEN [val |-> Some(Tok(input, pos)), pos |-> pos + 1]
    ELSE [val |-> None, pos |-> pos]

\* input.try_parse(PositionComponent::<S>::parse): on Err the cursor is rewound
PositionComponentParse(input, pos, S) ==
    LET t == Tok(input, pos)
        lp == ParseLp(input, pos + 1)
    IN IF t = "center" THEN Ok(Center, pos + 1)
       ELSE IF t \in LengthPercentages THEN Ok(Length(t), pos + 1)
       ELSE IF t \in S THEN Ok(Side(t, lp.val), lp.pos)
       ELSE Err(pos)

\* Position::parse in which a bare length that is followed by a horizontal
\* side keyword is taken as the vertical position
PositionParseRetryLength(input) ==
    LET h == PositionComponentParse(input, 1, HorizontalPositionKeyword)
    IN IF h.ok /\ Unwrap(h.val).tag = "Center"
       THEN LET v == PositionComponentParse(input, h.pos, VerticalPositionKeyword)
                x == PositionComponentParse(input, h.pos, HorizontalPositionKeyword)
            IN IF v.ok THEN Ok(Position(Center, Unwrap(v.val)), v.pos)
               ELSE IF x.ok THEN Ok(Position(Unwrap(x.val), Center), x.pos)
               ELSE Ok(Position(Center, Center), h.pos)
       ELSE IF h.ok /\ Unwrap(h.val).tag = "Length"
       THEN LET x == Unwrap(h.val)
                t == Tok(input, h.pos)
                r == PositionComponentParse(input, h.pos, HorizontalPositionKeyword)
            IN IF t \in VerticalPositionKeyword
               THEN Ok(Position(x, Side(t, None)), h.pos + 1)
               ELSE IF t \in LengthPercentages
               THEN Ok(Position(x, Length(t)), h.pos + 1)
               ELSE IF t \in HorizontalPositionKeyword
               THEN Ok(Position(Unwrap(r.val), Length(x.lp[1])), r.pos)
               ELSE Ok(Position(x, Center), IF t = "center" THEN h.pos + 1 ELSE h.pos)
       ELSE IF h.ok
       THEN LET x_keyword == Unwrap(h.val).side
                lp == Unwrap(h.val).lp
                t == Tok(input, h.pos)
                y_lp == ParseLp(input, h.pos + 1)
            IN IF t = "center" THEN Ok(Position(Side(x_keyword, lp), Center), h.pos + 1)
               ELSE IF t \in VerticalPositionKeyword
               THEN Ok(Position(Side(x_keyword, lp), Side(t, y_lp.val)), y_lp.pos)
               ELSE Ok(Position(Side(x_keyword, None),
                                IF IsSome(lp) THEN Length(Unwrap(lp)) ELSE Center),
                       h.pos)
       ELSE LET y_keyword == Tok(input, 1)
                y_lp == ParseLp(input, 2)
                t == Tok(input, y_lp.pos)
                x_lp == ParseLp(input, y_lp.pos + 1)
            IN IF y_keyword \notin VerticalPositionKeyword THEN Err(1)
               ELSE IF t \in HorizontalPositionKeyword
               THEN Ok(Position(Side(t, x_lp.val), Side(y_keyword, y_lp.val)), x_lp.pos)
               ELSE IF t = "center"
               THEN Ok(Position(Center, Side(y_keyword, y_lp.val)), y_lp.pos + 1)
               ELSE Ok(Position(Center, Side(y_keyword, None)), 2)

\* Position::parse on the whole stream `input`
PositionParse(input) ==
    LET h == PositionComponentParse(input, 1, HorizontalPositionKeyword)
    IN IF h.ok /\ Unwrap(h.val).tag = "Center"
       THEN LET v == PositionComponentParse(input, h.pos, VerticalPositionKeyword)
                x == PositionComponentParse(input, h.pos, HorizontalPositionKeyword)
            IN IF v.ok THEN Ok(Position(Center, Unwrap(v.val)), v.pos)
               ELSE IF x.ok THEN Ok(Position(Unwrap(x.val), Center), x.pos)
               ELSE Ok(Position(Center, Center), h.pos)
       ELSE IF h.ok /\ Unwrap(h.val).tag = "Length"
       THEN LET x == Unwrap(h.val)
                t == Tok(input, h.pos)
            IN IF t \in VerticalPositionKeyword
               THEN Ok(Position(x, Side(t, None)), h.pos + 1)
               ELSE IF t \in LengthPercentages
               THEN Ok(Position(x, Length(t)), h.pos + 1)
               ELSE Ok(Position(x, Center), IF t = "center" THEN h.pos + 1 ELSE h.pos)
       ELSE IF h.ok
       THEN LET x_keyword == Unwrap(h.val).side
                lp == Unwrap(h.val).lp
                t == Tok(input, h.pos)
                y_lp == ParseLp(input, h.pos + 1)
            IN IF t = "center" THEN Ok(Position(Side(x_keyword, lp), Center), h.pos + 1)
               ELSE IF t \in VerticalPositionKeyword
               THEN Ok(Position(Side(x_keyword, lp), Side(t, y_lp.val)), y_lp.pos)
               ELSE Ok(Position(Side(x_keyword, None),
                                IF IsSome(lp) THEN Length(Unwrap(lp)) ELSE Center),
                       h.pos)
       ELSE LET y_keyword == Tok(input, 1)
                y_lp == ParseLp(input, 2)
                t == Tok(input, y_lp.pos)
                x_lp == ParseLp(input, y_lp.pos + 1)
            IN IF y_keyword \notin VerticalPositionKeyword THEN Err(1)
               ELSE IF t \in HorizontalPositionKeyword
               THEN Ok(Position(Side(t, x_lp.val), Side(y_keyword, y_lp.val)), x_lp.pos)
               ELSE IF t = "center"
               THEN Ok(Position(Center, Side(y_keyword, y_lp.val)), y_lp.pos + 1)
               ELSE Ok(Position(Center, Side(y_keyword, None)), 2)

\* PositionComponent::to_css: Option lp is the sequence of its tokens
PositionComponentToCss(c, minify) ==
    CASE c.tag = "Center" -> IF minify THEN <<"50%">> ELSE <<"center">>
      [] c.tag = "Length" -> c.lp
      [] c.tag = "Side" -> <<c.side>> \o c.lp

\* Position::to_css without the arm that writes the `left` anchor
PositionToCssNoLeftAnchor(self, minify) ==
    LET x == self.x
        y == self.y
        x_pos == PositionComponentToCss(x, minify)
        y_pos == PositionComponentToCss(y, minify)
    IN CASE x.tag = "Side" /\ IsSome(x.lp) /\ y.tag = "Length" ->
                x_pos \o <<"top">> \o y.lp
         [] x.tag = "Length" /\ y.tag = "Center" -> x.lp
         [] x.tag = "Side" /\ ~IsSome(x.lp) /\ y.tag = "Center" -> x_pos
         [] x.tag = "Center" /\ y.tag = "Side" /\ ~IsSome(y.lp) -> y_pos
         [] x.tag = "Length" /\ y.tag = "Length" /\ y.lp = <<"50%">> -> x.lp
         [] x.tag = "Side" /\ ~IsSome(x.lp) /\ y.tag = "Length" /\ y.lp = <<"50%">> -> x_pos
         [] x.tag = "Length" /\ x.lp = <<"50%">> /\ y.tag = "Side" /\ ~IsSome(y.lp) -> y_pos
         [] OTHER -> x_pos \o y_pos

\* Position::to_css: the match arms in source order
PositionToCss(self, minify) ==
    LET x == self.x
        y == self.y
        x_pos == PositionComponentToCss(x, minify)
        y_pos == PositionComponentToCss(y, minify)
    IN CASE x.tag = "Side" /\ IsSome(x.lp) /\ y.tag = "Length" ->
                x_pos \o <<"top">> \o y.lp
         [] x.tag = "Length" /\ y.tag = "Side" /\ IsSome(y.lp) ->
                <<"left">> \o x.lp \o y_pos
         [] x.tag = "Length" /\ y.tag = "Center" -> x.lp
         [] x.tag = "Side" /\ ~IsSome(x.lp) /\ y.tag = "Center" -> x_pos
         [] x.tag = "Center" /\ y.tag = "Side" /\ ~IsSome(y.lp) -> y_pos
         [] x.tag = "Length" /\ y.tag = "Length" /\ y.lp = <<"50%">> -> x.lp
         [] x.tag = "Side" /\ ~IsSome(x.lp) /\ y.tag = "Length" /\ y.lp = <<"50%">> -> x_pos
         [] x.tag = "Length" /\ x.lp = <<"50%">> /\ y.tag = "Side" /\ ~IsSome(y.lp) -> y_pos
         [] OTHER -> x_pos \o y_pos

PositionInit ==
    /\ pInput = <<>>
    /\ pResult = Err(1)
    /\ pValue = None
    /\ pMinify = FALSE
    /\ pText = <<>>
    /\ pReparsed = Err(1)
    /\ pCenter = None
    /\ pPc = "start"

\* a caller runs Position::parse on a token stream
PosParse ==
    /\ pPc = "start"
    /\ \E input \in SeqsUpTo(PosTokens, MaxPosTokens) :
          /\ pInput' = input
          /\ pResult' = PositionParse(input)
          /\ pValue' = PositionParse(input).val
    /\ pPc' = "parsed"
    /\ UNCHANGED <<pMinify, pText, pReparsed, pCenter>>

\* a caller builds a Position from its two pub fields
PosBuild ==
    /\ pPc = "start"
    /\ \E v \in Positions : pValue' = Some(v)
    /\ pPc' = "built"
    /\ UNCHANGED <<pInput, pResult, pMinify, pText, pReparsed, pCenter>>

\* the value in hand is serialized to a printer
PosPrint ==
    /\ pPc \in {"parsed", "built"}
    /\ IsSome(pValue)
    /\ \E minify \in BOOLEAN :
          /\ pMinify' = minify
          /\ pText' = PositionToCss(Unwrap(pValue), minify)
    /\ pPc' = "printed"
    /\ UNCHANGED <<pInput, pResult, pValue, pReparsed, pCenter>>

\* the serialized text is parsed again
PosReparse ==
    /\ pPc = "printed"
    /\ pReparsed' = PositionParse(pText)
    /\ pPc' = "reparsed"
    /\ UNCHANGED <<pInput, pResult, pValue, pMinify, pText, pCenter>>

\* a caller asks whether the value in hand is the centre
PosIsCenter ==
    /\ pPc \in {"parsed", "built"}
    /\ IsSome(pValue)
    /\ pCenter' = Some(IsCenter(Unwrap(pValue)))
    /\ pPc' = "asked"
    /\ UNCHANGED <<pInput, pResult, pValue, pMinify, pText, pReparsed>>

(***************************************************************************)
(* TransformList and Matrix3d.  The source computes in f32; the model      *)
(* computes in the integers, on inputs for which every f32 operation of    *)
(* the source is exact: integer entries, divisors that are 1, -1 or a      *)
(* power of two, and square roots of perfect squares.  A quotient that is  *)
(* not an integer is kept as a pair [num, den].                            *)
(***************************************************************************)
\* LengthPercentage: Dimension(Length) with a unit, or Percentage
Px(v) == [variant |-> "Dimension", unit |-> "px", value |-> v]
Em(v) == [variant |-> "Dimension", unit |-> "em", value |-> v]
Percentage(v) == [variant |-> "Percentage", unit |-> "%", value |-> v]

\* Length::to_px: only an absolute length resolves to pixels
ToPx(len) == IF len.unit = "px" THEN Some(len.value) ELSE None

\* Transform variants: the variant name and its operands
Translate(x, y) == [kind |-> "Translate", args |-> <<x, y>>]
Translate3d(x, y, z) == [kind |-> "Translate3d", args |-> <<x, y, z>>]
Scale(x, y) == [kind |-> "Scale", args |-> <<x, y>>]
Scale3d(x, y, z) == [kind |-> "Scale3d", args |-> <<x, y, z>>]
Skew(x, y) == [kind |-> "Skew", args |-> <<x, y>>]
Rotate3d(x, y, z, angle) == [kind |-> "Rotate3d", args |-> <<x, y, z, angle>>]
Perspective(len) == [kind |-> "Perspective", args |-> <<len>>]
TransformMatrix(m) == [kind |-> "Matrix", args |-> <<m>>]
TransformMatrix3d(m) == [kind |-> "Matrix3d", args |-> <<m>>]

\* Matrix3d::identity
Identity ==
    [m11 |-> 1, m12 |-> 0, m13 |-> 0, m14 |-> 0,
     m21 |-> 0, m22 |-> 1, m23 |-> 0, m24 |-> 0,
     m31 |-> 0, m32 |-> 0, m33 |-> 1, m34 |-> 0,
     m41 |-> 0, m42 |-> 0, m43 |-> 0, m44 |-> 1]

\* Matrix3d::translate
MatrixTranslate(x, y, z) ==
    [m11 |-> 1, m12 |-> 0, m13 |-> 0, m14 |-> 0,
     m21 |-> 0, m22 |-> 1, m23 |-> 0, m24 |-> 0,
     m31 |-> 0, m32 |-> 0, m33 |-> 1, m34 |-> 0,
     m41 |-> x, m42 |-> y, m43 |-> z, m44 |-> 1]

\* Matrix3d::scale
MatrixScale(x, y, z) ==
    [m11 |-> x, m12 |-> 0, m13 |-> 0, m14 |-> 0,
     m21 |-> 0, m22 |-> y, m23 |-> 0, m24 |-> 0,
     m31 |-> 0, m32 |-> 0, m33 |-> z, m34 |-> 0,
     m41 |-> 0, m42 |-> 0, m43 |-> 0, m44 |-> 1]

\* Matrix3d::multiply
Multiply(self, other) ==
    [m11 |-> self.m11 * other.m11 + self.m12 * other.m21
             + self.m13 * other.m31 + self.m14 * other.m41,
     m12 |-> self.m11 * other.m12 + self.m12 * other.m22
             + self.m13 * other.m32 + self.m14 * other.m42,
     m13 |-> self.m11 * other.m13 + self.m12 * other.m23
             + self.m13 * other.m33 + self.m14 * other.m43,
     m14 |-> self.m11 * other.m14 + self.m12 * other.m24
             + self.m13 * other.m34 + self.m14 * other.m44,
     m21 |-> self.m21 * other.m11 + self.m22 * other.m21
             + self.m23 * other.m31 + self.m24 * other.m41,
     m22 |-> self.m21 * other.m12 + self.m22 * other.m22
             + self.m23 * other.m32 + self.m24 * other.m42,
     m23 |-> self.m21 * other.m13 + self.m22 * other.m23
             + self.m23 * other.m33 + self.m24 * other.m43,
     m24 |-> self.m21 * other.m14 + self.m22 * other.m24
             + self.m23 * other.m34 + self.m24 * other.m44,
     m31 |-> self.m31 * other.m11 + self.m32 * other.m21
             + self.m33 * other.m31 + self.m34 * other.m41,
     m32 |-> self.m31 * other.m12 + self.m32 * other.m22
             + self.m33 * other.m32 + self.m34 * other.m42,
     m33 |-> self.m31 * other.m13 + self.m32 * other.m23
             + self.m33 * other.m33 + self.m34 * other.m43,
     m34 |-> self.m31 * other.m14 + self.m32 * other.m24
             + self.m33 * other.m34 + self.m34 * other.m44,
     m41 |-> self.m41 * other.m11 + self.m42 * other.m21
             + self.m43 * other.m31 + self.m44 * other.m41,
     m42 |-> self.m41 * other.m12 + self.m42 * other.m22
             + self.m43 * other.m32 + self.m44 * other.m42,
     m43 |-> self.m41 * other.m13 + self.m42 * other.m23
             + self.m43 * other.m33 + self.m44 * other.m43,
     m44 |-> self.m41 * other.m14 + self.m42 * other.m24
             + self.m43 * other.m34 + self.m44 * other.m44]

\* Matrix3d::determinant
Determinant(self) ==
    self.m14 * self.m23 * self.m32 * self.m41
    - self.m13 * self.m24 * self.m32 * self.m41
    - self.m14 * self.m22 * self.m33 * self.m41
    + self.m12 * self.m24 * self.m33 * self.m41
    + self.m13 * self.m22 * self.m34 * self.m41
    - self.m12 * self.m23 * self.m34 * self.m41
    - self.m14 * self.m23 * self.m31 * self.m42
    + self.m13 * self.m24 * self.m31 * self.m42
    + self.m14 * self.m21 * self.m33 * self.m42
    - self.m11 * self.m24 * self.m33 * self.m42
    - self.m13 * self.m21 * self.m34 * self.m42
    + self.m11 * self.m23 * self.m34 * self.m42
    + self.m14 * self.m22 * self.m31 * self.m43
    - self.m12 * self.m24 * self.m31 * self.m43
    - self.m14 * self.m21 * self.m32 * self.m43
    + self.m11 * self.m24 * self.m32 * self.m43
    + self.m12 * self.m21 * self.m34 * self.m43
    - self.m11 * self.m22 * self.m34 * self.m43
    - self.m13 * self.m22 * self.m31 * self.m44
    + self.m12 * self.m23 * self.m31 * self.m44
    + self.m13 * self.m21 * self.m32 * self.m44
    - self.m11 * self.m23 * self.m32 * self.m44
    - self.m12 * self.m21 * self.m33 * self.m44
    + self.m11 * self.m22 * self.m33 * self.m44

\* the sixteen sums Matrix3d::inverse multiplies by 1.0 / det
Cofactors(self) ==
    [m11 |-> (self.m23 * self.m34 * self.m42
             - self.m24 * self.m33 * self.m42
             + self.m24 * self.m32 * self.m43
             - self.m22 * self.m34 * self.m43
             - self.m23 * self.m32 * self.m44
             + self.m22 * self.m33 * self.m44),
     m12 |-> (self.m14 * self.m33 * self.m42
             - self.m13 * self.m34 * self.m42
             - self.m14 * self.m32 * self.m43
             + self.m12 * self.m34 * self.m43
             + self.m13 * self.m32 * self.m44
             - self.m12 * self.m33 * self.m44),
     m13 |-> (self.m13 * self.m24 * self.m42
             - self.m14 * self.m23 * self.m42
             + self.m14 * self.m22 * self.m43
             - self.m12 * self.m24 * self.m43
             - self.m13 * self.m22 * self.m44
             + self.m12 * self.m23 * self.m44),
     m14 |-> (self.m14 * self.m23 * self.m32
             - self.m13 * self.m24 * self.m32
             - self.m14 * self.m22 * self.m33
             + self.m12 * self.m24 * self.m33
             + self.m13 * self.m22 * self.m34
             - self.m12 * self.m23 * self.m34),
     m21 |-> (self.m24 * self.m33 * self.m41
             - self.m23 * self.m34 * self.m41
             - self.m24 * self.m31 * self.m43
             + self.m21 * self.m34 * self.m43
             + self.m23 * self.m31 * self.m44
             - self.m21 * self.m33 * self.m44),
     m22 |-> (self.m13 * self.m34 * self.m41
             - self.m14 * self.m33 * self.m41
             + self.m14 * self.m31 * self.m43
             - self.m11 * self.m34 * self.m43
             - self.m13 * self.m31 * self.m44
             + self.m11 * self.m33 * self.m44),
     m23 |-> (self.m14 * self.m23 * self.m41
             - self.m13 * self.m24 * self.m41
             - self.m14 * self.m21 * self.m43
             + self.m11 * self.m24 * self.m43
             + self.m13 * self.m21 * self.m44
             - self.m11 * self.m23 * self.m44),
     m24 |-> (self.m13 * self.m24 * self.m31
             - self.m14 * self.m23 * self.m31
             + self.m14 * self.m21 * self.m33
             - self.m11 * self.m24 * self.m33
             - self.m13 * self.m21 * self.m34
             + self.m11 * self.m23 * self.m34),
     m31 |-> (self.m22 * self.m34 * self.m41
             - self.m24 * self.m32 * self.m41
             + self.m24 * self.m31 * self.m42
             - self.m21 * self.m34 * self.m42
             - self.m22 * self.m31 * self.m44
             + self.m21 * self.m32 * self.m44),
     m32 |-> (self.m14 * self.m32 * self.m41
             - self.m12 * self.m34 * self.m41
             - self.m14 * self.m31 * self.m42
             + self.m11 * self.m34 * self.m42
             + self.m12 * self.m31 * self.m44
             - self.m11 * self.m32 * self.m44),
     m33 |-> (self.m12 * self.m24 * self.m41
             - self.m14 * self.m22 * self.m41
             + self.m14 * self.m21 * self.m42
             - self.m11 * self.m24 * self.m42
             - self.m12 * self.m21 * self.m44
             + self.m11 * self.m22 * self.m44),
     m34 |-> (self.m14 * self.m22 * self.m31
             - self.m12 * self.m24 * self.m31
             - self.m14 * self.m21 * self.m32
             + self.m11 * self.m24 * self.m32
             + self.m12 * self.m21 * self.m34
             - self.m11 * self.m22 * self.m34),
     m41 |-> (self.m23 * self.m32 * self.m41
             - self.m22 * self.m33 * self.m41
             - self.m23 * self.m31 * self.m42
             + self.m21 * self.m33 * self.m42
             + self.m22 * self.m31 * self.m43
             - self.m21 * self.m32 * self.m43),
     m42 |-> (self.m12 * self.m33 * self.m41
             - self.m13 * self.m32 * self.m41
             + self.m13 * self.m31 * self.m42
             - self.m11 * self.m33 * self.m42
             - self.m12 * self.m31 * self.m43
             + self.m11 * self.m32 * self.m43),
     m43 |-> (self.m13 * self.m22 * self.m41
             - self.m12 * self.m23 * self.m41
             - self.m13 * self.m21 * self.m42
             + self.m11 * self.m23 * self.m42
             + self.m12 * self.m21 * self.m43
             - self.m11 * self.m22 * self.m43),
     m44 |-> (self.m12 * self.m23 * self.m31
             - self.m13 * self.m22 * self.m31
             + self.m13 * self.m21 * self.m32
             - self.m11 * self.m23 * self.m32
             - self.m12 * self.m21 * self.m33
             + self.m11 * self.m22 * self.m33)]

\* Matrix3d::inverse: None for determinant 0, else the matrix num / den
Inverse(self) ==
    IF Determinant(self) = 0 THEN None
    ELSE Some([num |-> Cofactors(self), den |-> Determinant(self)])

\* Matrix3d::transpose
Transpose(self) ==
    [m11 |-> self.m11, m12 |-> self.m21, m13 |-> self.m31, m14 |-> self.m41,
     m21 |-> self.m12, m22 |-> self.m22, m23 |-> self.m32, m24 |-> self.m42,
     m31 |-> self.m13, m32 |-> self.m23, m33 |-> self.m33, m34 |-> self.m43,
     m41 |-> self.m14, m42 |-> self.m24, m43 |-> self.m34, m44 |-> self.m44]

\* Matrix3d::multiply_vector (pin is 1-based here)
MultiplyVector(self, pin) ==
    <<pin[1] * self.m11 + pin[2] * self.m21 + pin[3] * self.m31 + pin[4] * self.m41,
      pin[1] * self.m12 + pin[2] * self.m22 + pin[3] * self.m32 + pin[4] * self.m42,
      pin[1] * self.m13 + pin[2] * self.m23 + pin[3] * self.m33 + pin[4] * self.m43,
      pin[1] * self.m14 + pin[2] * self.m24 + pin[3] * self.m34 + pin[4] * self.m44>>

\* Matrix3d::scale_by_factor
ScaleByFactor(self, scaling_factor) ==
    [m11 |-> self.m11 * scaling_factor, m12 |-> self.m12 * scaling_factor,
     m13 |-> self.m13 * scaling_factor, m14 |-> self.m14 * scaling_factor,
     m21 |-> self.m21 * scaling_factor, m22 |-> self.m22 * scaling_factor,
     m23 |-> self.m23 * scaling_factor, m24 |-> self.m24 * scaling_factor,
     m31 |-> self.m31 * scaling_factor, m32 |-> self.m32 * scaling_factor,
     m33 |-> self.m33 * scaling_factor, m34 |-> self.m34 * scaling_factor,
     m41 |-> self.m41 * scaling_factor, m42 |-> self.m42 * scaling_factor,
     m43 |-> self.m43 * scaling_factor, m44 |-> self.m44 * scaling_factor]

\* Matrix3d::is_2d
Is2d(self) ==
    /\ self.m31 = 0 /\ self.m32 = 0
    /\ self.m13 = 0 /\ self.m23 = 0
    /\ self.m43 = 0 /\ self.m14 = 0
    /\ self.m24 = 0 /\ self.m34 = 0
    /\ self.m33 = 1 /\ self.m44 = 1

\* Matrix3d::to_matrix2d
ToMatrix2d(self) ==
    IF Is2d(self)
    THEN Some([a |-> self.m11, b |-> self.m12, c |-> self.m21, d |-> self.m22,
               e |-> self.m41, f |-> self.m42])
    ELSE None

\* 1.0 / x for the x whose reciprocal is an integer
Reciprocal(x) == CHOOSE r \in {-1, 1} : r * x = 1

\* f32::sqrt on a perfect square
Sqrt(n) == CHOOSE k \in 0..n : k * k = n

\* f32::max
Max(a, b) == IF a >= b THEN a ELSE b

\* the closures of decompose: combine, dot, cross (vectors are 1-based here)
Combine(a, b, ascl, bscl) ==
    <<ascl * a[1] + bscl * b[1], ascl * a[2] + bscl * b[2], ascl * a[3] + bscl * b[3]>>
Dot(a, b) == a[1] * b[1] + a[2] * b[2] + a[3] * b[3]
Cross(row1, row2) ==
    <<row1[2] * row2[3] - row1[3] * row2[2],
      row1[3] * row2[1] - row1[1] * row2[3],
      row1[1] * row2[2] - row1[2] * row2[1]>>

\* an f32 of the rotation part, which takes square roots of numbers that
\* are no squares: Root(num, den) is sqrt(num / den) for num >= 0 and
\* -sqrt(-num / den) for num < 0, with den > 0
Root(num, den) == [num |-> num, den |-> den]

\* the f32 quotient x / y of two such numbers: NaN for 0 / 0, an infinity
\* (of the sign of x times the sign of the zero) for x / 0, else the
\* number, which is an integer for the matrices of the model
RootDiv(x, y) ==
    IF y.num = 0
    THEN [class |-> IF x.num = 0 THEN "NaN" ELSE "infinite", value |-> 0]
    ELSE [class |-> "finite",
          value |-> CHOOSE q \in -2..2 :
                       /\ q * q * Max(y.num, -y.num) * x.den = Max(x.num, -x.num) * y.den
                       /\ (q >= 0) = (x.num * y.num >= 0)
                       /\ (q = 0) = (x.num = 0)]

\* v / len for every component of a row
DivRow(v, len) == <<v[1] \div len, v[2] \div len, v[3] \div len>>

\* matrix.m14 != 0.0 || matrix.m24 != 0.0 || matrix.m34 != 0.0
HasPerspective(matrix) == matrix.m14 # 0 \/ matrix.m24 # 0 \/ matrix.m34 # 0

\* the statements of decompose without the translation step
DecomposeStepsNoTranslation ==
    <<"m44", "normalize", "perspective_matrix", "singular", "inverse", "transpose",
      "solve", "perspective", "row", "scale_x", "row0", "skew_x",
      "row1 orthogonal", "scale_y", "row1", "skew_y", "row2 orthogonal to row0",
      "skew_z", "row2 orthogonal to row1", "scale_z", "row2", "skew_z check",
      "skew", "flip", "scale", "rotate", "rotate signs", "len", "rotate by len",
      "a", "rotate by max", "rotate3d">>

\* the statements of Matrix3d::decompose in source order.  The locals of
\* the function are the fields of a record that each statement extends or
\* overwrites (upd @@ s); `returned` is set by a `return None`.
DecomposeSteps ==
    <<"m44", "normalize", "perspective_matrix", "singular", "inverse", "transpose",
      "solve", "perspective", "translation", "row", "scale_x", "row0", "skew_x",
      "row1 orthogonal", "scale_y", "row1", "skew_y", "row2 orthogonal to row0",
      "skew_z", "row2 orthogonal to row1", "scale_z", "row2", "skew_z check",
      "skew", "flip", "scale", "rotate", "rotate signs", "len", "rotate by len",
      "a", "rotate by max", "rotate3d">>

DecomposeStep(name, self, s) ==
    CASE name = "m44" -> [returned |-> self.m44 = 0] @@ s
      [] name = "normalize" ->
            [scaling_factor |-> self.m44,
             matrix |-> ScaleByFactor(self, Reciprocal(self.m44))] @@ s
      [] name = "perspective_matrix" ->
            [perspective_matrix |->
                [s.matrix EXCEPT !.m14 = 0, !.m24 = 0, !.m34 = 0, !.m44 = 1]] @@ s
      [] name = "singular" ->
            [returned |-> Determinant(s.perspective_matrix) = 0] @@ s
      \* perspective_matrix.inverse().unwrap(): the matrix num / den
      [] name = "inverse" ->
            IF HasPerspective(s.matrix)
            THEN [inverse |-> Unwrap(Inverse(s.perspective_matrix))] @@ s
            ELSE s
      [] name = "transpose" ->
            IF HasPerspective(s.matrix)
            THEN [transposed |-> Transpose(s.inverse.num)] @@ s
            ELSE s
      \* perspective, times inverse.den
      [] name = "solve" ->
            IF HasPerspective(s.matrix)
            THEN [perspective |->
                     MultiplyVector(s.transposed,
                         <<s.matrix.m14, s.matrix.m24, s.matrix.m34, s.matrix.m44>>)] @@ s
            ELSE s
      [] name = "perspective" ->
            IF ~HasPerspective(s.matrix) THEN s
            ELSE IF s.perspective[1] = 0 /\ s.perspective[2] = 0 /\ s.perspective[4] = 0
            THEN [transforms |->
                     Append(s.transforms,
                            Perspective(Px([num |-> -s.inverse.den,
                                            den |-> s.perspective[3]])))] @@ s
            ELSE [returned |-> TRUE] @@ s
      [] name = "translation" ->
            IF s.matrix.m41 # 0 \/ s.matrix.m42 # 0 \/ s.matrix.m43 # 0
            THEN [transforms |->
                     Append(s.transforms,
                            Translate3d(Px(s.matrix.m41), Px(s.matrix.m42),
                                        Px(s.matrix.m43)))] @@ s
            ELSE s
      [] name = "row" ->
            [row |-> <<<<s.matrix.m11, s.matrix.m12, s.matrix.m13>>,
                       <<s.matrix.m21, s.matrix.m22, s.matrix.m23>>,
                       <<s.matrix.m31, s.matrix.m32, s.matrix.m33>>>>] @@ s
      [] name = "scale_x" -> [scale_x |-> Sqrt(Dot(s.row[1], s.row[1]))] @@ s
      [] name = "row0" -> [row |-> [s.row EXCEPT ![1] = DivRow(@, s.scale_x)]] @@ s
      [] name = "skew_x" -> [skew_x |-> Dot(s.row[1], s.row[2])] @@ s
      [] name = "row1 orthogonal" ->
            [row |-> [s.row EXCEPT ![2] = Combine(@, s.row[1], 1, -s.skew_x)]] @@ s
      [] name = "scale_y" -> [scale_y |-> Sqrt(Dot(s.row[2], s.row[2]))] @@ s
      [] name = "row1" ->
            [row |-> [s.row EXCEPT ![2] = DivRow(@, s.scale_y)],
             skew_x |-> s.skew_x \div s.scale_y] @@ s
      [] name = "skew_y" -> [skew_y |-> Dot(s.row[1], s.row[3])] @@ s
      [] name = "row2 orthogonal to row0" ->
            [row |-> [s.row EXCEPT ![3] = Combine(@, s.row[1], 1, -s.skew_y)]] @@ s
      [] name = "skew_z" -> [skew_z |-> Dot(s.row[2], s.row[3])] @@ s
      [] name = "row2 orthogonal to row1" ->
            [row |-> [s.row EXCEPT ![3] = Combine(@, s.row[2], 1, -s.skew_z)]] @@ s
      [] name = "scale_z" -> [scale_z |-> Sqrt(Dot(s.row[3], s.row[3]))] @@ s
      [] name = "row2" ->
            [row |-> [s.row EXCEPT ![3] = DivRow(@, s.scale_z)],
             skew_y |-> s.skew_y \div s.scale_z,
             skew_z |-> s.skew_z \div s.scale_z] @@ s
      [] name = "skew_z check" -> [returned |-> s.skew_z # 0] @@ s
      \* round! is the identity on the integers
      [] name = "skew" ->
            IF s.skew_x # 0 \/ s.skew_y # 0 \/ s.skew_z # 0
            THEN [transforms |->
                     Append(s.transforms, Skew([unit |-> "rad", value |-> s.skew_x],
                                               [unit |-> "rad", value |-> s.skew_y]))] @@ s
            ELSE s
      [] name = "flip" ->
            IF Dot(s.row[1], Cross(s.row[2], s.row[3])) < 0
            THEN [scale_x |-> -s.scale_x, scale_y |-> -s.scale_y, scale_z |-> -s.scale_z,
                  row |-> [i \in 1..3 |-> [k \in 1..3 |-> s.row[i][k] * (-1)]]] @@ s
            ELSE s
      [] name = "scale" ->
            IF s.scale_x # 1 \/ s.scale_y # 1 \/ s.scale_z # 1
            THEN [transforms |->
                     Append(s.transforms, Scale3d(s.scale_x, s.scale_y, s.scale_z))] @@ s
            ELSE s
      \* 0.5 * sqrt(n) is the root of n / 4
      [] name = "rotate" ->
            [rotate_x |-> Root(Max(1 + s.row[1][1] - s.row[2][2] - s.row[3][3], 0), 4),
             rotate_y |-> Root(Max(1 - s.row[1][1] + s.row[2][2] - s.row[3][3], 0), 4),
             rotate_z |-> Root(Max(1 - s.row[1][1] - s.row[2][2] + s.row[3][3], 0), 4),
             rotate_w |-> Root(Max(1 + s.row[1][1] + s.row[2][2] + s.row[3][3], 0), 4)]
                @@ s
      [] name = "rotate signs" ->
            [rotate_x |-> IF s.row[3][2] > s.row[2][3]
                          THEN Root(-s.rotate_x.num, s.rotate_x.den) ELSE s.rotate_x,
             rotate_y |-> IF s.row[1][3] > s.row[3][1]
                          THEN Root(-s.rotate_y.num, s.rotate_y.den) ELSE s.rotate_y,
             rotate_z |-> IF s.row[2][1] > s.row[1][2]
                          THEN Root(-s.rotate_z.num, s.rotate_z.den) ELSE s.rotate_z]
                @@ s
      \* the three squares have the denominator 4
      [] name = "len" ->
            [len |-> Root(Max(s.rotate_x.num, -s.rotate_x.num)
                            + Max(s.rotate_y.num, -s.rotate_y.num)
                            + Max(s.rotate_z.num, -s.rotate_z.num), 4)] @@ s
      [] name = "rotate by len" ->
            IF s.len.num # 0
            THEN [rotate_x |-> Root(s.rotate_x.num * s.len.den, s.rotate_x.den * s.len.num),
                  rotate_y |-> Root(s.rotate_y.num * s.len.den, s.rotate_y.den * s.len.num),
                  rotate_z |-> Root(s.rotate_z.num * s.len.den, s.rotate_z.den * s.len.num)]
                     @@ s
            ELSE s
      \* 2.0 * len.atan2(rotate_w), kept as the two arguments of atan2; with
      \* rotate_w >= 0 it is 0.0 exactly when len is 0.0
      [] name = "a" -> [a |-> [y |-> s.len, x |-> s.rotate_w]] @@ s
      [] name = "rotate by max" ->
            LET xy == IF s.rotate_x.num * s.rotate_y.den >= s.rotate_y.num * s.rotate_x.den
                      THEN s.rotate_x ELSE s.rotate_y
                max == IF xy.num * s.rotate_z.den >= s.rotate_z.num * xy.den
                       THEN xy ELSE s.rotate_z
            IN [rotate_x |-> RootDiv(s.rotate_x, max),
                rotate_y |-> RootDiv(s.rotate_y, max),
                rotate_z |-> RootDiv(s.rotate_z, max)] @@ s
      [] name = "rotate3d" ->
            IF s.a.y.num # 0
            THEN [transforms |->
                     Append(s.transforms,
                            Rotate3d(s.rotate_x, s.rotate_y, s.rotate_z,
                                     [unit |-> "rad", value |-> s.a]))] @@ s
            ELSE s

\* the statements from the i-th on, each run on the locals the ones before
\* left; a `return None` ends the run
RECURSIVE DecomposeFrom(_, _, _)
DecomposeFrom(self, i, s) ==
    IF i > Len(DecomposeSteps) \/ s.returned THEN s
    ELSE CHOOSE r \in {DecomposeFrom(self, i + 1, s1) :
                          s1 \in {DecomposeStep(DecomposeSteps[i], self, s)}} : TRUE

\* Matrix3d::decompose
Decompose(self) ==
    CHOOSE r \in {IF s.returned \/ s.transforms = <<>> THEN None ELSE Some(s.transforms) :
                     s \in {DecomposeFrom(self, 1, [returned |-> FALSE,
                                                    transforms |-> <<>>])}} : TRUE

\* Transform::to_matrix, for the variants the lists of the model hold
TransformToMatrix(self) ==
    CASE self.kind = "Translate" ->
            LET x == self.args[1]
                y == self.args[2]
            IN IF x.variant = "Dimension" /\ y.variant = "Dimension"
                    /\ IsSome(ToPx(x)) /\ IsSome(ToPx(y))
               THEN Some(MatrixTranslate(Unwrap(ToPx(x)), Unwrap(ToPx(y)), 0))
               ELSE None
      [] self.kind = "Translate3d" ->
            LET x == self.args[1]
                y == self.args[2]
                z == self.args[3]
            IN IF x.variant = "Dimension" /\ y.variant = "Dimension"
                    /\ IsSome(ToPx(x)) /\ IsSome(ToPx(y)) /\ IsSome(ToPx(z))
               THEN Some(MatrixTranslate(Unwrap(ToPx(x)), Unwrap(ToPx(y)), Unwrap(ToPx(z))))
               ELSE None
      [] self.kind = "Scale" -> Some(MatrixScale(self.args[1], self.args[2], 1))
      [] self.kind = "Scale3d" ->
            Some(MatrixScale(self.args[1], self.args[2], self.args[3]))

\* the loop body of to_matrix with the running total as the left factor
FoldStepRightMultiply(matrix, transform) ==
    CHOOSE r \in {IF IsSome(m) THEN Some(Multiply(matrix, Unwrap(m))) ELSE None :
                     m \in {TransformToMatrix(transform)}} : TRUE

\* the loop body of to_matrix that skips a function without a matrix
FoldStepSkip(matrix, transform) ==
    CHOOSE r \in {IF IsSome(m) THEN Some(Multiply(Unwrap(m), matrix)) ELSE Some(matrix) :
                     m \in {TransformToMatrix(transform)}} : TRUE

\* the loop body of TransformList::to_matrix: the new running total, or
\* None for `return None`
FoldStep(matrix, transform) ==
    CHOOSE r \in {IF IsSome(m) THEN Some(Multiply(Unwrap(m), matrix)) ELSE None :
                     m \in {TransformToMatrix(transform)}} : TRUE

\* the loop of TransformList::to_matrix from the i-th function on
RECURSIVE ToMatrixFrom(_, _, _)
ToMatrixFrom(list, i, matrix) ==
    IF i > Len(list) THEN Some(matrix)
    ELSE CHOOSE r \in {IF IsSome(next) THEN ToMatrixFrom(list, i + 1, Unwrap(next))
                        ELSE None : next \in {FoldStep(matrix, list[i])}} : TRUE

\* TransformList::to_matrix
ToMatrix(list) == ToMatrixFrom(list, 1, Identity)

\* the text the number printer writes for an integer-valued f32
NumberToCss(v) == ToString(v)

\* the text the length printers write: the number, then the unit
LengthToCss(len) == NumberToCss(len.value) \o len.unit

\* *x == 0.0 on a length
IsZero(len) == len.value = 0

\* Printer::delim(',', false): the comma, followed by a space unless minifying
Delim(minify) == IF minify THEN "," ELSE ", "

\* the entries of a Matrix3d and of a Matrix in the order to_css writes them
Matrix3dEntries(m) ==
    <<m.m11, m.m12, m.m13, m.m14, m.m21, m.m22, m.m23, m.m24,
      m.m31, m.m32, m.m33, m.m34, m.m41, m.m42, m.m43, m.m44>>
MatrixEntries(m) == <<m.a, m.b, m.c, m.d, m.e, m.f>>

\* n_i.to_css(dest), with dest.delim(',', false) between two entries
RECURSIVE NumbersToCss(_, _, _)
NumbersToCss(entries, i, minify) ==
    IF i > Len(entries) THEN ""
    ELSE (IF i > 1 THEN Delim(minify) ELSE "") \o NumberToCss(entries[i])
            \o NumbersToCss(entries, i + 1, minify)

\* the Scale3d arm without its first branch, scale3d(x, x, 1) => scale(x)
Scale3dToCssNoEqualArm(x, y, z, minify) ==
    IF minify /\ x # 1 /\ y = 1 /\ z = 1
    THEN "scaleX(" \o NumberToCss(x) \o ")"
    ELSE IF minify /\ x = 1 /\ y # 1 /\ z = 1
    THEN "scaleY(" \o NumberToCss(y) \o ")"
    ELSE IF minify /\ x = 1 /\ y = 1 /\ z # 1
    THEN "scaleZ(" \o NumberToCss(z) \o ")"
    ELSE IF minify /\ z = 1
    THEN "scale(" \o NumberToCss(x) \o Delim(minify) \o NumberToCss(y) \o ")"
    ELSE "scale3d(" \o NumberToCss(x) \o Delim(minify) \o NumberToCss(y)
             \o Delim(minify) \o NumberToCss(z) \o ")"

\* the Scale3d(x, y, z) arm of Transform::to_css
Scale3dToCss(x, y, z, minify) ==
    IF minify /\ z = 1 /\ x = y
    THEN "scale(" \o NumberToCss(x) \o ")"
    ELSE IF minify /\ x # 1 /\ y = 1 /\ z = 1
    THEN "scaleX(" \o NumberToCss(x) \o ")"
    ELSE IF minify /\ x = 1 /\ y # 1 /\ z = 1
    THEN "scaleY(" \o NumberToCss(y) \o ")"
    ELSE IF minify /\ x = 1 /\ y = 1 /\ z # 1
    THEN "scaleZ(" \o NumberToCss(z) \o ")"
    ELSE IF minify /\ z = 1
    THEN "scale(" \o NumberToCss(x) \o Delim(minify) \o NumberToCss(y) \o ")"
    ELSE "scale3d(" \o NumberToCss(x) \o Delim(minify) \o NumberToCss(y)
             \o Delim(minify) \o NumberToCss(z) \o ")"

\* Transform::to_css, for the variants the model prints; minify is
\* dest.minify
TransformToCss(self, minify) ==
    CASE self.kind = "Translate" ->
            LET x == self.args[1]
                y == self.args[2]
            IN IF minify /\ IsZero(x) /\ ~IsZero(y)
               THEN "translateY(" \o LengthToCss(y) \o ")"
               ELSE "translate(" \o LengthToCss(x)
                        \o (IF ~IsZero(y) THEN Delim(minify) \o LengthToCss(y) ELSE "")
                        \o ")"
      [] self.kind = "Translate3d" ->
            LET x == self.args[1]
                y == self.args[2]
                z == self.args[3]
            IN IF minify /\ ~IsZero(x) /\ IsZero(y) /\ IsZero(z)
               THEN "translate(" \o LengthToCss(x) \o ")"
               ELSE IF minify /\ IsZero(x) /\ ~IsZero(y) /\ IsZero(z)
               THEN "translateY(" \o LengthToCss(y) \o ")"
               ELSE IF minify /\ IsZero(x) /\ IsZero(y) /\ ~IsZero(z)
               THEN "translateZ(" \o LengthToCss(z) \o ")"
               ELSE IF minify /\ IsZero(z)
               THEN "translate(" \o LengthToCss(x) \o Delim(minify) \o LengthToCss(y)
                        \o ")"
               ELSE "translate3d(" \o LengthToCss(x) \o Delim(minify) \o LengthToCss(y)
                        \o Delim(minify) \o LengthToCss(z) \o ")"
      [] self.kind = "Scale" ->
            LET x == self.args[1]
                y == self.args[2]
            IN IF minify /\ x = 1 /\ y # 1
               THEN "scaleY(" \o NumberToCss(y) \o ")"
               ELSE IF minify /\ x # 1 /\ y = 1
               THEN "scaleX(" \o NumberToCss(x) \o ")"
               ELSE "scale(" \o NumberToCss(x)
                        \o (IF y # x THEN Delim(minify) \o NumberToCss(y) ELSE "")
                        \o ")"
      [] self.kind = "Scale3d" ->
            Scale3dToCss(self.args[1], self.args[2], self.args[3], minify)
      [] self.kind = "Matrix" ->
            "matrix(" \o NumbersToCss(MatrixEntries(self.args[1]), 1, minify) \o ")"
      [] self.kind = "Matrix3d" ->
            "matrix3d(" \o NumbersToCss(Matrix3dEntries(self.args[1]), 1, minify) \o ")"

\* TransformList::to_css_base from the i-th function on
RECURSIVE ToCssBaseFrom(_, _, _)
ToCssBaseFrom(list, i, minify) ==
    IF i > Len(list) THEN ""
    ELSE TransformToCss(list[i], minify) \o ToCssBaseFrom(list, i + 1, minify)

\* TransformList::to_css_base
ToCssBase(list, minify) == ToCssBaseFrom(list, 1, minify)

\* what to_css wrote: the text, which candidate it is (form, with the
\* functions of that candidate in list), and the candidate strings built
\* on the way (original is the first value of `base`, None if not built)
Written(form, list, text, original, decomposed, mat) ==
    [form |-> form, list |-> list, text |-> text,
     original |-> original, decomposed |-> decomposed, mat |-> mat]

\* the comparisons of to_css with the matrix literal measured against the
\* original list instead of the list chosen so far
SelectAgainstOriginal(self, matrix, base0, d, decomposed, mat) ==
    IF Len(mat) < Len(base0)
    THEN Written("matrix",
                 <<IF Is2d(matrix) THEN TransformMatrix(Unwrap(ToMatrix2d(matrix)))
                   ELSE TransformMatrix3d(matrix)>>,
                 mat, Some(base0), decomposed, Some(mat))
    ELSE IF IsSome(decomposed) /\ Len(Unwrap(decomposed)) < Len(base0)
    THEN Written("decomposed", Unwrap(d), Unwrap(decomposed),
                 Some(base0), decomposed, Some(mat))
    ELSE Written("base", self, base0, Some(base0), decomposed, Some(mat))

\* the comparisons of TransformList::to_css on the three candidate
\* strings: base0 is the original list, decomposed the decomposed list d
\* (None without a decomposition), mat the matrix literal
Select(self, matrix, base0, d, decomposed, mat) ==
    LET useDecomposed == IsSome(decomposed) /\ Len(Unwrap(decomposed)) < Len(base0)
        base == IF useDecomposed THEN Unwrap(decomposed) ELSE base0
    IN IF Len(mat) < Len(base)
       THEN Written("matrix",
                    <<IF Is2d(matrix) THEN TransformMatrix(Unwrap(ToMatrix2d(matrix)))
                      ELSE TransformMatrix3d(matrix)>>,
                    mat, Some(base0), decomposed, Some(mat))
       ELSE IF useDecomposed
       THEN Written("decomposed", Unwrap(d), base, Some(base0), decomposed, Some(mat))
       ELSE Written("base", self, base, Some(base0), decomposed, Some(mat))

\* the minify branch of TransformList::to_css for a list that folds to matrix
ToCssMinified(self, matrix) ==
    CHOOSE r \in
        UNION {{Select(self, matrix, base0, d, decomposed, mat) :
                  decomposed \in {IF IsSome(d) THEN Some(ToCssBase(Unwrap(d), TRUE))
                                   ELSE None}} :
               base0 \in {ToCssBase(self, TRUE)},
               d \in {Decompose(matrix)},
               mat \in {IF IsSome(ToMatrix2d(matrix))
                         THEN TransformToCss(TransformMatrix(Unwrap(ToMatrix2d(matrix))),
                                             TRUE)
                         ELSE TransformToCss(TransformMatrix3d(matrix), TRUE)}} : TRUE

\* TransformList::to_css
TransformListToCss(self, minify) ==
    IF Len(self) = 0 THEN Written("none", <<>>, "none", None, None, None)
    ELSE IF minify
    THEN CHOOSE r \in
            {IF IsSome(matrix) THEN ToCssMinified(self, Unwrap(matrix))
             ELSE Written("base", self, ToCssBase(self, minify), None, None, None) :
                matrix \in {ToMatrix(self)}} : TRUE
    ELSE Written("base", self, ToCssBase(self, minify), None, None, None)

\* the operands the transform functions of the model carry
TranslateOperands == {Px(1), Percentage(50), Em(1)}
ScaleOperands == {1, 2}
Transforms ==
    {Translate(x, y) : x \in TranslateOperands, y \in TranslateOperands}
        \cup {Scale(x, y) : x \in ScaleOperands, y \in ScaleOperands}
        \cup {Translate3d(Px(0), Px(0), Px(1)), Scale3d(1, 1, 2)}

\* the single functions the model prints: the three-argument forms over
\* identity and non-identity operands
Printables ==
    {Translate3d(x, y, z) : x \in {Px(0), Px(1)}, y \in {Px(0), Px(1)}, z \in {Px(0), Px(1)}}
        \cup {Scale3d(x, y, z) : x \in {1, 2, 3}, y \in {1, 2, 3}, z \in {1, 2}}

\* the matrices the model inverts and decomposes: a diagonal upper 3x3
\* block d, a perspective column p, a translation row t and m44 = w
MatrixOf(d, p, t, w) ==
    [m11 |-> d[1], m12 |-> 0, m13 |-> 0, m14 |-> p[1],
     m21 |-> 0, m22 |-> d[2], m23 |-> 0, m24 |-> p[2],
     m31 |-> 0, m32 |-> 0, m33 |-> d[3], m34 |-> p[3],
     m41 |-> t[1], m42 |-> t[2], m43 |-> t[3], m44 |-> w]
\* the matrix Matrix3d::rotate gives for a quarter turn about an axis of
\* the coordinate system: sin is the sine of the angle, 1 or -1
QuarterTurn(axis, sin) ==
    CASE axis = "x" -> [Identity EXCEPT !.m22 = 0, !.m23 = sin, !.m32 = -sin, !.m33 = 0]
      [] axis = "y" -> [Identity EXCEPT !.m11 = 0, !.m13 = -sin, !.m31 = sin, !.m33 = 0]
      [] axis = "z" -> [Identity EXCEPT !.m11 = 0, !.m12 = sin, !.m21 = -sin, !.m22 = 0]
Matrices ==
    {MatrixOf(d, p, t, w) : d \in {-1, 0, 1, 2} \X {-1, 0, 1, 2} \X {-1, 0, 1, 2},
                            p \in {0, 1} \X {0, 1} \X {0, 1},
                            t \in {0, 1} \X {0, 1} \X {0, 1},
                            w \in {-1, 0, 1}}
        \cup {QuarterTurn(axis, sin) : axis \in {"x", "y", "z"}, sin \in {-1, 1}}

TransformInit ==
    /\ tList = <<>>
    /\ tMatrix = None
    /\ tMinify = FALSE
    /\ tText = Written("", <<>>, "", None, None, None)
    /\ tSelf = Identity
    /\ tInverse = None
    /\ tDecomposed = None
    /\ tPc = "start"

\* a caller folds a transform list
TrToMatrix ==
    /\ tPc = "start"
    /\ \E list \in SeqsUpTo(Transforms, MaxTransforms) :
          \E matrix \in {ToMatrix(list)} :
             /\ tList' = list
             /\ tMatrix' = matrix
    /\ tPc' = "folded"
    /\ UNCHANGED <<tMinify, tText, tSelf, tInverse, tDecomposed>>

\* TransformList::to_css on the list in hand, with the printer's minify flag
TrToCss ==
    /\ tPc = "folded"
    /\ \E minify \in BOOLEAN :
          /\ tMinify' = minify
          /\ \E r \in {TransformListToCss(tList, minify)} : tText' = r
    /\ tPc' = "printed"
    /\ UNCHANGED <<tList, tMatrix, tSelf, tInverse, tDecomposed>>

\* Transform::to_css on a single function
TrPrint ==
    /\ tPc = "start"
    /\ \E transform \in Printables, minify \in BOOLEAN :
          /\ tMinify' = minify
          /\ tText' = Written("transform", <<transform>>,
                              TransformToCss(transform, minify), None, None, None)
    /\ tPc' = "written"
    /\ UNCHANGED <<tList, tMatrix, tSelf, tInverse, tDecomposed>>

\* a caller builds a Matrix3d from its pub fields
TrBuild ==
    /\ tPc = "start"
    /\ tSelf' \in Matrices
    /\ tPc' = "matrix"
    /\ UNCHANGED <<tList, tMatrix, tMinify, tText, tInverse, tDecomposed>>

\* Matrix3d::inverse on the matrix in hand
TrInverse ==
    /\ tPc = "matrix"
    /\ \E r \in {Inverse(tSelf)} : tInverse' = r
    /\ tPc' = "inverted"
    /\ UNCHANGED <<tList, tMatrix, tMinify, tText, tSelf, tDecomposed>>

\* Matrix3d::decompose on the matrix in hand
TrDecompose ==
    /\ tPc = "inverted"
    /\ \E r \in {Decompose(tSelf)} : tDecomposed' = r
    /\ tPc' = "decomposed"
    /\ UNCHANGED <<tList, tMatrix, tMinify, tText, tSelf, tInverse>>

(***************************************************************************)
(* A declaration block with both handlers: PropertyHandler::handle_property *)
(* returns whether the handler took the declaration, and the caller of a   *)
(* block hands every declaration to each handler of the block and          *)
(* finalizes them together at the end of the block.                        *)
(***************************************************************************)
Offer ==
    /\ ncalls < MaxDecls
    /\ \/ \E property \in Longhands : Handle(property) /\ OutlineHandle(property)
       \/ \E property \in Shorthands : Handle(property) /\ OutlineHandle(property)
       \/ \E property \in Logicals : Handle(property) /\ OutlineHandle(property)
       \/ \E property \in OutlineLonghands : Handle(property) /\ OutlineHandle(property)
       \/ \E property \in OutlineShorthands : Handle(property) /\ OutlineHandle(property)

FinalizeBlock == Finalize /\ OutlineFinalize

(***************************************************************************)
(* BorderRadius, the value of the border-radius shorthand: four corners,   *)
(* each a Size2D of a horizontal and a vertical radius.  The radii are the *)
(* tokens of Rect above and Slash is the Delim('/') token, which no        *)
(* LengthPercentage parses from.                                           *)
(***************************************************************************)
\* most radii written on one side of the `/`
MaxRadii == 4

Slash == NumVals + 1

Size2D(horizontal, vertical) == <<horizontal, vertical>>

\* BorderRadius::parse (widths.0 .. widths.3 are widths.rect[1] .. [4])
BorderRadiusParse(input, pos) ==
    LET widths == ParseWith(input, pos)
        delim == widths.ok /\ widths.pos <= Len(input) /\ input[widths.pos] = Slash
        heights == IF delim THEN ParseWith(input, widths.pos + 1) ELSE widths
    IN IF ~widths.ok THEN Err(widths.pos)
       ELSE IF ~heights.ok THEN Err(heights.pos)
       ELSE Ok(BorderRadius(Size2D(widths.rect[1], heights.rect[1]),
                            Size2D(widths.rect[2], heights.rect[2]),
                            Size2D(widths.rect[3], heights.rect[3]),
                            Size2D(widths.rect[4], heights.rect[4])),
               heights.pos)

\* BorderRadius::to_css
BorderRadiusToCss(self) ==
    LET widths == RectNew(self.top_left[1], self.top_right[1],
                          self.bottom_left[1], self.bottom_right[1])
        heights == RectNew(self.top_left[2], self.top_right[2],
                           self.bottom_left[2], self.bottom_right[2])
    IN IF widths # heights
       THEN RectToCss(widths) \o <<Slash>> \o RectToCss(heights)
       ELSE RectToCss(widths)

\* the radii written before the `/`, and the `/` with the radii after it
RadiusLists == SeqsUpTo(Vals, MaxRadii)
RadiusTails == {<<>>} \cup {<<Slash>> \o v : v \in RadiusLists}

BorderRadiusValueInit ==
    /\ bInput \in {h \o t : h \in RadiusLists, t \in RadiusTails}
    /\ bResult = Err(1)
    /\ bText = <<>>
    /\ bReparsed = Err(1)
    /\ bPc = "start"

\* the declaration parser runs BorderRadius::parse on the value of the shorthand
RadiusParse ==
    /\ bPc = "start"
    /\ \E r \in {BorderRadiusParse(bInput, 1)} : bResult' = r
    /\ bPc' = "parsed"
    /\ UNCHANGED <<bInput, bText, bReparsed>>

\* the parsed value is serialized
RadiusPrint ==
    /\ bPc = "parsed"
    /\ bResult.ok
    /\ bText' = BorderRadiusToCss(Unwrap(bResult.val))
    /\ bPc' = "printed"
    /\ UNCHANGED <<bInput, bResult, bReparsed>>

\* the serialized text is parsed again
RadiusReparse ==
    /\ bPc = "printed"
    /\ \E r \in {BorderRadiusParse(bText, 1)} : bReparsed' = r
    /\ bPc' = "reparsed"
    /\ UNCHANGED <<bInput, bResult, bText>>

(***************************************************************************)
(* KeyframesRule.  What a Printer was given is the sequence of the pieces  *)
(* written to it; the indentation a Printer adds after a newline is left   *)
(* out.  VendorPrefix here has all five bits.                              *)
(***************************************************************************)
\* longest list of keyframes of a rule
MaxKeyframes == 2

AllPrefixBits == {"None", "WebKit", "Moz", "O", "Ms"}

\* VendorPrefix::to_css of a single bit
PrefixToCss(prefix) ==
    CASE prefix = "WebKit" -> "-webkit-"
      [] prefix = "Moz" -> "-moz-"
      [] prefix = "O" -> "-o-"
      [] prefix = "Ms" -> "-ms-"
      [] prefix = "None" -> ""

\* Printer::newline and Printer::whitespace write nothing when minifying
Newline(minify) == IF minify THEN <<>> ELSE <<"\n">>
Whitespace(minify) == IF minify THEN <<>> ELSE <<" ">>

\* enum KeyframeSelector; a Percentage is held in percent
From == [tag |-> "From", p |-> 0]
To == [tag |-> "To", p |-> 100]
KeyframePercentage(p) == [tag |-> "Percentage", p |-> p]

\* KeyframeSelector::to_css
KeyframeSelectorToCss(self, minify) ==
    CASE self.tag = "Percentage" ->
            IF minify /\ self.p = 100 THEN "to" ELSE ToString(self.p) \o "%"
      [] self.tag = "From" -> IF minify THEN "0%" ELSE "from"
      [] self.tag = "To" -> "to"

\* struct Keyframe; the declaration block of a keyframe is empty
Keyframe(selectors) == [selectors |-> selectors]

RECURSIVE SelectorsToCss(_, _, _)
SelectorsToCss(selectors, i, minify) ==
    IF i > Len(selectors) THEN <<>>
    ELSE (IF i > 1 THEN <<",">> ELSE <<>>)
         \o <<KeyframeSelectorToCss(selectors[i], minify)>>
         \o SelectorsToCss(selectors, i + 1, minify)

\* Keyframe::to_css
KeyframeToCss(self, minify) == SelectorsToCss(self.selectors, 1, minify) \o <<"{}">>

\* the `for keyframe in &self.keyframes` loop of write_prefix!
RECURSIVE KeyframesToCss(_, _, _)
KeyframesToCss(keyframes, i, minify) ==
    IF i > Len(keyframes) THEN <<>>
    ELSE (IF i > 1 /\ ~minify THEN <<"\n">> ELSE <<>>)
         \o Newline(minify)
         \o KeyframeToCss(keyframes[i], minify)
         \o KeyframesToCss(keyframes, i + 1, minify)

\* the write_prefix! macro: dest is [text, first_rule]
WritePrefix(self, prefix, minify, dest) ==
    IF Contains(self.vendor_prefix, {prefix})
    THEN [first_rule |-> FALSE,
          text |-> dest.text
                   \o (IF dest.first_rule THEN <<>>
                       ELSE (IF ~minify THEN <<"\n">> ELSE <<>>) \o Newline(minify))
                   \o <<"@", PrefixToCss(prefix), "keyframes ", self.name>>
                   \o Whitespace(minify)
                   \o <<"{">>
                   \o KeyframesToCss(self.keyframes, 1, minify)
                   \o Newline(minify)
                   \o <<"}">>]
    ELSE dest

\* the prefixes write_prefix! is invoked with, in order
WrittenPrefixes == <<"WebKit", "Moz", "O", "None">>

RECURSIVE WritePrefixes(_, _, _, _)
WritePrefixes(self, i, minify, dest) ==
    IF i > Len(WrittenPrefixes) THEN dest
    ELSE \* the value is bound before it is passed on
         LET next == CHOOSE d \in {WritePrefix(self, WrittenPrefixes[i], minify, dest)} : TRUE
         IN WritePrefixes(self, i + 1, minify, next)

\* KeyframesRule::to_css
KeyframesRuleToCss(self, minify) ==
    WritePrefixes(self, 1, minify, [first_rule |-> TRUE, text |-> <<>>]).text

KeyframeSelectors == {From, To, KeyframePercentage(100)}
Keyframes == {Keyframe(<<s>>) : s \in KeyframeSelectors}
             \cup {Keyframe(<<From, To>>)}
KeyframesRule(name, keyframes, vendor_prefix) ==
    [name |-> name, keyframes |-> keyframes, vendor_prefix |-> vendor_prefix]

KeyframesInit ==
    /\ kRule \in {KeyframesRule("spin", k, vp) :
                     k \in SeqsUpTo(Keyframes, MaxKeyframes), vp \in SUBSET AllPrefixBits}
    /\ kMinify \in BOOLEAN
    /\ kText = <<>>
    /\ kPc = "start"

\* the stylesheet printer serializes the rule
KeyframesPrint ==
    /\ kPc = "start"
    /\ \E r \in {KeyframesRuleToCss(kRule, kMinify)} : kText' = r
    /\ kPc' = "printed"
    /\ UNCHANGED <<kRule, kMinify>>

(***************************************************************************)
(* Specifications.                                                         *)
(***************************************************************************)
RectIdle ==
    /\ rInput = <<>> /\ rPos = 1 /\ rResult = <<>> /\ rText = <<>>
    /\ rReparsed = <<>> /\ rPc = "start"

BorderRadiusIdle ==
    /\ targets = None /\ top_left = None /\ top_right = None /\ bottom_left = None
    /\ bottom_right = None /\ logical = <<>> /\ decls = <<>> /\ ncalls = 0
    /\ block = <<>>
    /\ last = [op |-> "new", arg |-> None, pre |-> New(targets), handled |-> FALSE, out |-> <<>>]

OutlineIdle ==
    /\ width = None /\ style = None /\ color = None /\ oBlock = <<>> /\ oCalls = 0
    /\ oLast = [op |-> "new", arg |-> None, pre |-> OutlineDefault,
                handled |-> FALSE, out |-> <<>>]

PositionIdle ==
    /\ pInput = <<>> /\ pResult = Err(1) /\ pValue = None /\ pMinify = FALSE
    /\ pText = <<>> /\ pReparsed = Err(1) /\ pCenter = None /\ pPc = "start"

TransformIdle ==
    /\ tList = <<>> /\ tMatrix = None /\ tMinify = FALSE
    /\ tText = Written("", <<>>, "", None, None, None) /\ tSelf = Identity
    /\ tInverse = None /\ tDecomposed = None /\ tPc = "start"

BorderRadiusValueIdle ==
    /\ bInput = <<>> /\ bResult = Err(1) /\ bText = <<>> /\ bReparsed = Err(1)
    /\ bPc = "start"

KeyframesIdle ==
    /\ kRule = KeyframesRule("", <<>>, {}) /\ kMinify = FALSE /\ kText = <<>>
    /\ kPc = "start"

NextRect ==
    \/ RectParse /\ UNCHANGED <<brVars, outlineVars, posVars, trVars, radiusVars, kfVars>>
    \/ RectPrint /\ UNCHANGED <<brVars, outlineVars, posVars, trVars, radiusVars, kfVars>>
    \/ RectReparse /\ UNCHANGED <<brVars, outlineVars, posVars, trVars, radiusVars, kfVars>>

NextBorderRadius ==
    \/ HandleProperty /\ UNCHANGED <<rectVars, outlineVars, posVars, trVars, radiusVars, kfVars>>
    \/ Finalize /\ UNCHANGED <<rectVars, outlineVars, posVars, trVars, radiusVars, kfVars>>

NextOutline ==
    \/ OutlineHandleProperty /\ UNCHANGED <<rectVars, brVars, posVars, trVars, radiusVars, kfVars>>
    \/ OutlineFinalize /\ UNCHANGED <<rectVars, brVars, posVars, trVars, radiusVars, kfVars>>

NextPosition ==
    \/ PosParse /\ UNCHANGED <<rectVars, brVars, outlineVars, trVars, radiusVars, kfVars>>
    \/ PosBuild /\ UNCHANGED <<rectVars, brVars, outlineVars, trVars, radiusVars, kfVars>>
    \/ PosPrint /\ UNCHANGED <<rectVars, brVars, outlineVars, trVars, radiusVars, kfVars>>
    \/ PosReparse /\ UNCHANGED <<rectVars, brVars, outlineVars, trVars, radiusVars, kfVars>>
    \/ PosIsCenter /\ UNCHANGED <<rectVars, brVars, outlineVars, trVars, radiusVars, kfVars>>

NextTransform ==
    \/ TrToMatrix /\ UNCHANGED <<rectVars, brVars, outlineVars, posVars, radiusVars, kfVars>>
    \/ TrToCss /\ UNCHANGED <<rectVars, brVars, outlineVars, posVars, radiusVars, kfVars>>
    \/ TrPrint /\ UNCHANGED <<rectVars, brVars, outlineVars, posVars, radiusVars, kfVars>>
    \/ TrBuild /\ UNCHANGED <<rectVars, brVars, outlineVars, posVars, radiusVars, kfVars>>
    \/ TrInverse /\ UNCHANGED <<rectVars, brVars, outlineVars, posVars, radiusVars, kfVars>>
    \/ TrDecompose /\ UNCHANGED <<rectVars, brVars, outlineVars, posVars, radiusVars, kfVars>>

NextDeclarationBlock ==
    \/ Offer /\ UNCHANGED <<rectVars, posVars, trVars, radiusVars, kfVars>>
    \/ FinalizeBlock /\ UNCHANGED <<rectVars, posVars, trVars, radiusVars, kfVars>>

NextBorderRadiusValue ==
    \/ RadiusParse /\ UNCHANGED <<rectVars, brVars, outlineVars, posVars, trVars, kfVars>>
    \/ RadiusPrint /\ UNCHANGED <<rectVars, brVars, outlineVars, posVars, trVars, kfVars>>
    \/ RadiusReparse /\ UNCHANGED <<rectVars, brVars, outlineVars, posVars, trVars, kfVars>>

NextKeyframes ==
    KeyframesPrint /\ UNCHANGED <<rectVars, brVars, outlineVars, posVars, trVars, radiusVars>>

AllIdle ==
    /\ RectIdle /\ BorderRadiusIdle /\ OutlineIdle /\ PositionIdle /\ TransformIdle

InitRect ==
    /\ RectInit /\ BorderRadiusIdle /\ OutlineIdle /\ PositionIdle /\ TransformIdle
    /\ BorderRadiusValueIdle /\ KeyframesIdle

InitBorderRadius ==
    /\ BorderRadiusInit /\ RectIdle /\ OutlineIdle /\ PositionIdle /\ TransformIdle
    /\ BorderRadiusValueIdle /\ KeyframesIdle

InitOutline ==
    /\ OutlineInit /\ RectIdle /\ BorderRadiusIdle /\ PositionIdle /\ TransformIdle
    /\ BorderRadiusValueIdle /\ KeyframesIdle

InitPosition ==
    /\ PositionInit /\ RectIdle /\ BorderRadiusIdle /\ OutlineIdle /\ TransformIdle
    /\ BorderRadiusValueIdle /\ KeyframesIdle

InitTransform ==
    /\ TransformInit /\ RectIdle /\ BorderRadiusIdle /\ OutlineIdle /\ PositionIdle
    /\ BorderRadiusValueIdle /\ KeyframesIdle

InitDeclarationBlock ==
    /\ BorderRadiusInit /\ OutlineInit /\ RectIdle /\ PositionIdle /\ TransformIdle
    /\ BorderRadiusValueIdle /\ KeyframesIdle

InitBorderRadiusValue == BorderRadiusValueInit /\ AllIdle /\ KeyframesIdle

InitKeyframes == KeyframesInit /\ AllIdle /\ BorderRadiusValueIdle

SpecRect == InitRect /\ [][NextRect]_vars

SpecBorderRadius == InitBorderRadius /\ [][NextBorderRadius]_vars

SpecOutline == InitOutline /\ [][NextOutline]_vars

SpecPosition == InitPosition /\ [][NextPosition]_vars

SpecTransform == InitTransform /\ [][NextTransform]_vars

SpecDeclarationBlock == InitDeclarationBlock /\ [][NextDeclarationBlock]_vars

SpecBorderRadiusValue == InitBorderRadiusValue /\ [][NextBorderRadiusValue]_vars

SpecKeyframes == InitKeyframes /\ [][NextKeyframes]_vars


(***************************************************************************)
(* Vocabulary of the properties.                                           *)
(***************************************************************************)
\* number of leading tokens of a stream that T::parse accepts
RECURSIVE LeadingVals(_)
LeadingVals(input) ==
    IF input = <<>> \/ Head(input) \notin Vals THEN 0
    ELSE 1 + LeadingVals(Tail(input))

\* the quad expansion rule of the 1-to-4 value shorthand
QuadExpand(v) ==
    CASE Len(v) = 1 -> <<v[1], v[1], v[1], v[1]>>
      [] Len(v) = 2 -> <<v[1], v[2], v[1], v[2]>>
      [] Len(v) = 3 -> <<v[1], v[2], v[3], v[2]>>
      [] Len(v) = 4 -> <<v[1], v[2], v[3], v[4]>>

IsPrefixOf(s, t) == Len(s) <= Len(t) /\ SubSeq(t, 1, Len(s)) = s

LonghandKinds == {LonghandKind(p) : p \in Corners}
IsLonghand(d) == d.kind \in LonghandKinds
IsShorthand(d) == d.kind = "BorderRadius"
IsLogical(d) == d.kind \in LogicalKinds
IsPhysical(d) == IsLonghand(d) \/ IsShorthand(d)

\* declaration d sets corner p to value v
Carries(d, p, v) ==
    \/ d.kind = LonghandKind(p) /\ d.val = v
    \/ d.kind = "BorderRadius" /\ d.val[p] = v

\* the last call was handle_property(Arg) on the handler Pre
Handled == last.op = "handle_property"
Finalized == last.op = "finalize"
Arg == Unwrap(last.arg)
Pre == last.pre

\* the value a physical declaration d gives corner p
ValFor(d, p) == IF IsShorthand(d) THEN d.val[p] ELSE d.val

\* corner p of handler h is pending with a value other than v under a prefix
\* set that lacks some bit of vp
Conflict(h, p, v, vp) ==
    /\ IsSome(h[p])
    /\ Unwrap(h[p])[1] # v
    /\ \E b \in vp : b \notin Unwrap(h[p])[2]

\* what the last call appended to the output (finalize: to the returned list)
Emitted ==
    IF Finalized THEN SubSeq(last.out, Len(Pre.decls) + 1, Len(last.out))
    ELSE SubSeq(decls, Len(Pre.decls) + 1, Len(decls))

(***************************************************************************)
(* C1: Rect parsing reads one to four inner values, stops at the first     *)
(* inner failure with the cursor rewound to just after the last value      *)
(* read, expands N values to (top, right, bottom, left) by the quad rule,  *)
(* fails only when the first value fails, and never consumes a fifth.      *)
(***************************************************************************)
C1_RectParseExpands ==
    rPc # "start" =>
        LET n == LeadingVals(rInput)
            v == rInput
        IN /\ rResult.ok <=> n >= 1
           /\ n = 1 => rResult.rect = <<v[1], v[1], v[1], v[1]>> /\ rPos = 2
           /\ n = 2 => rResult.rect = <<v[1], v[2], v[1], v[2]>> /\ rPos = 3
           /\ n = 3 => rResult.rect = <<v[1], v[2], v[3], v[2]>> /\ rPos = 4
           /\ n >= 4 => rResult.rect = <<v[1], v[2], v[3], v[4]>> /\ rPos = 5

\* three values `a b c` with a # b, followed by a rejected token and more
C1_Witness ==
    /\ rPc = "parsed"
    /\ LeadingVals(rInput) = 3
    /\ Len(rInput) = 5
    /\ rInput[1] # rInput[2]
    /\ rResult.ok
    /\ rResult.rect[4] = rInput[2]
    /\ rPos = 4

(***************************************************************************)
(* C2: Rect serialization writes the smallest number k of leading values   *)
(* whose quad expansion reproduces the quad, so parsing the text back      *)
(* gives the quad again: 1 value when all four are equal, 2 when           *)
(* top = bottom and right = left, 3 when only right = left, else 4.        *)
(***************************************************************************)
C2_RectCollapseMinimal ==
    rPc = "reparsed" =>
        LET q == rResult.rect
            k == Len(rText)
        IN /\ rText = SubSeq(q, 1, k)
           /\ k \in 1..4
           /\ QuadExpand(rText) = q
           /\ rReparsed.ok /\ rReparsed.rect = q /\ rReparsed.pos = k + 1
           /\ \A j \in 1..(k - 1) : QuadExpand(SubSeq(q, 1, j)) # q
           /\ k = 1 <=> (q[1] = q[2] /\ q[1] = q[3] /\ q[1] = q[4])
           /\ k <= 2 <=> (q[1] = q[3] /\ q[2] = q[4])
           /\ k <= 3 <=> q[2] = q[4]

\* a quad read from four values that collapses to three
C2_Witness ==
    /\ rPc = "reparsed"
    /\ LeadingVals(rInput) = 4
    /\ Len(rText) = 3
    /\ rReparsed.rect = rResult.rect

(***************************************************************************)
(* C3: a longhand declaration for corner p with value v and prefix set vp  *)
(* flushes all pending state to the output buffer, before the update, if   *)
(* and only if p is pending with a value other than v under a prefix set   *)
(* that lacks a bit of vp; otherwise the declaration appends nothing to    *)
(* the output buffer.  For the shorthand the buffer grows exactly when     *)
(* one of its four corners is in that situation.                           *)
(***************************************************************************)
C3_FlushIffConflict ==
    /\ (Handled /\ IsLonghand(Arg)) =>
        LET p == CornerOfKind(Arg.kind)
        IN IF Conflict(Pre, p, Arg.val, Arg.vp)
           THEN /\ IsPrefixOf(Pre.decls \o Pre.logical, decls)
                /\ Len(decls) > Len(Pre.decls)
                /\ logical = <<>>
                /\ \A q \in Corners \ {p} : Self[q] = None
                /\ \A q \in Corners :
                      IsSome(Pre[q]) =>
                          \E i \in 1..Len(Emitted) :
                              Carries(Emitted[i], q, Unwrap(Pre[q])[1])
                \* flushed before the update: the new value is not in the output
                /\ \A i \in 1..Len(Emitted) : ~Carries(Emitted[i], p, Arg.val)
           ELSE decls = Pre.decls /\ logical = Pre.logical
    /\ (Handled /\ IsShorthand(Arg)) =>
        (decls # Pre.decls <=>
            \E p \in Corners : Conflict(Pre, p, Arg.val[p], Arg.vp))

\* a conflicting longhand arrived while another corner was pending too
C3_Witness ==
    /\ Handled /\ IsLonghand(Arg)
    /\ Conflict(Pre, CornerOfKind(Arg.kind), Arg.val, Arg.vp)
    /\ \E q \in Corners \ {CornerOfKind(Arg.kind)} : IsSome(Pre[q])
    /\ Len(decls) >= Len(Pre.decls) + 2

(***************************************************************************)
(* C4: after a longhand declaration for corner p with value v and prefix   *)
(* set vp the pending entry of p holds v; its prefix set is the old set    *)
(* united with vp when p was pending and no flush was triggered, and       *)
(* exactly vp when p was not pending or a flush was triggered; without a   *)
(* flush the other three corners are unchanged.                            *)
(***************************************************************************)
C4_LonghandUpdate ==
    (Handled /\ IsLonghand(Arg)) =>
        LET p == CornerOfKind(Arg.kind)
            flushed == Conflict(Pre, p, Arg.val, Arg.vp)
        IN /\ IsSome(Self[p])
           /\ Unwrap(Self[p])[1] = Arg.val
           /\ Unwrap(Self[p])[2] =
                 IF IsSome(Pre[p]) /\ ~flushed
                 THEN Unwrap(Pre[p])[2] \cup Arg.vp
                 ELSE Arg.vp
           /\ ~flushed => \A q \in Corners \ {p} : Self[q] = Pre[q]

\* the same value arrives under a further prefix and is merged
C4_Witness ==
    /\ Handled /\ IsLonghand(Arg)
    /\ LET p == CornerOfKind(Arg.kind)
       IN /\ IsSome(Pre[p])
          /\ ~Conflict(Pre, p, Arg.val, Arg.vp)
          /\ ~(Arg.vp \subseteq Unwrap(Pre[p])[2])
          /\ Unwrap(Self[p])[2] = PrefixBits
          /\ \E q \in Corners \ {p} : IsSome(Pre[q])


C6_ShorthandSetsAllCorners ==
    (Handled /\ IsShorthand(Arg)) =>
        \A p \in Corners :
            /\ IsSome(Self[p])
            /\ Unwrap(Self[p])[1] = Arg.val[p]
            /\ Arg.vp \subseteq Unwrap(Self[p])[2]

(***************************************************************************)
(* C7: a full shorthand empties the side buffer of flow-relative           *)
(* declarations before any corner is updated: the side buffer is empty     *)
(* afterwards, and what was in it reaches no output: the shorthand's own   *)
(* flush appends no flow-relative declaration, and any call appends only   *)
(* the flow-relative declarations that are in the side buffer at the time. *)
(***************************************************************************)
C7_ShorthandDropsLogical ==
    /\ (Handled /\ IsShorthand(Arg)) =>
        /\ logical = <<>>
        /\ IsPrefixOf(Pre.decls, decls)
        /\ \A i \in 1..Len(Emitted) : ~IsLogical(Emitted[i])
    /\ (Finalized \/ (Handled /\ ~IsShorthand(Arg))) =>
        \A i \in 1..Len(Emitted) :
            IsLogical(Emitted[i]) =>
                \E j \in 1..Len(Pre.logical) : Pre.logical[j] = Emitted[i]

\* a shorthand arrives with a flow-relative declaration buffered and a
\* conflicting corner pending, so that its flush runs with the buffer cleared
C7_Witness ==
    /\ Handled /\ IsShorthand(Arg)
    /\ Pre.logical # <<>>
    /\ Len(Emitted) > 0
    /\ logical = <<>>

(***************************************************************************)
(* C8: a flow-relative corner declaration flushes the pending physical     *)
(* corners at once and is then put in the side buffer unchanged; as long   *)
(* as no full shorthand follows, it goes to the output unchanged, behind   *)
(* everything emitted for the declarations that arrived before it (they    *)
(* are in the output buffer when it is buffered) and ahead of everything   *)
(* emitted for the physical declarations that arrived after it (each flush *)
(* writes the side buffer first, in order, then the physical result).      *)
(***************************************************************************)
C8_LogicalKeepsPlace ==
    /\ (Handled /\ IsLogical(Arg)) =>
        /\ logical = <<Arg>>
        /\ \A p \in Corners : Self[p] = None
        /\ IsPrefixOf(Pre.decls \o Pre.logical, decls)
        /\ \A i \in (Len(Pre.logical) + 1)..Len(Emitted) : IsPhysical(Emitted[i])
        /\ \A p \in Corners :
              IsSome(Pre[p]) =>
                  \E i \in 1..Len(Emitted) : Carries(Emitted[i], p, Unwrap(Pre[p])[1])
    /\ (Handled /\ ~IsLogical(Arg) /\ ~IsShorthand(Arg)) =>
        \/ logical = Pre.logical /\ decls = Pre.decls
        \/ /\ logical = <<>>
           /\ IsPrefixOf(Pre.decls \o Pre.logical, decls)
           /\ \A i \in (Len(Pre.logical) + 1)..Len(Emitted) : IsPhysical(Emitted[i])
    /\ Finalized =>
        /\ logical = <<>>
        /\ IsPrefixOf(Pre.decls \o Pre.logical, last.out)
        /\ \A i \in (Len(Pre.logical) + 1)..Len(Emitted) : IsPhysical(Emitted[i])
    \* physical corners are pending only behind the buffered declaration
    /\ Len(logical) <= 1

\* physical, flow-relative, physical, finalize: the output keeps that order
C8_Witness ==
    /\ Finalized
    /\ Len(last.out) = 3
    /\ IsPhysical(last.out[1])
    /\ IsLogical(last.out[2])
    /\ IsPhysical(last.out[3])
    /\ Pre.logical = <<last.out[2]>>
    /\ Pre.decls = <<last.out[1]>>


(***************************************************************************)
(* Calls in which flush ran on the handler as the call found it: finalize, *)
(* a flow-relative declaration, and a conflicting longhand.                *)
(***************************************************************************)
FlushedPre ==
    \/ Finalized
    \/ Handled /\ IsLogical(Arg)
    \/ Handled /\ IsLonghand(Arg)
          /\ Conflict(Pre, CornerOfKind(Arg.kind), Arg.val, Arg.vp)

AllPending(h) == \A p \in Corners : IsSome(h[p])

\* the prefixes common to the four pending corners of h
Common(h) == {b \in PrefixBits : \A p \in Corners : b \in Unwrap(h[p])[2]}

\* flush on h writes a combined shorthand
Combines(h) == AllPending(h) /\ Common(h) # {}

\* what is left of corner p's prefixes once the common ones went to the shorthand
Remaining(h, p) ==
    IF ~IsSome(h[p]) THEN {}
    ELSE IF Combines(h) THEN Unwrap(h[p])[2] \ Common(h)
    ELSE Unwrap(h[p])[2]

(***************************************************************************)
(* C9: flush emits one combined border-radius shorthand if and only if all *)
(* four corners are pending and the intersection of their prefix sets is   *)
(* nonempty; the shorthand holds the four pending values and, with no      *)
(* browser targets configured, exactly that intersection; otherwise no     *)
(* shorthand is emitted.                                                   *)
(***************************************************************************)
C9_ShorthandIffCommonPrefix ==
    FlushedPre =>
        LET emittedShorthands == {i \in 1..Len(Emitted) : IsShorthand(Emitted[i])}
        IN IF Combines(Pre)
           THEN /\ Cardinality(emittedShorthands) = 1
                /\ \A i \in emittedShorthands :
                      /\ Emitted[i].val =
                            BorderRadius(Unwrap(Pre.top_left)[1], Unwrap(Pre.top_right)[1],
                                         Unwrap(Pre.bottom_left)[1], Unwrap(Pre.bottom_right)[1])
                      /\ targets = None => Emitted[i].vp = Common(Pre)
           ELSE emittedShorthands = {}

\* four corners pending with different values, -webkit- common to all and
\* one corner unprefixed as well, no targets
C9_Witness ==
    /\ Finalized
    /\ targets = None
    /\ AllPending(Pre)
    /\ Common(Pre) = {"WebKit"}
    /\ Unwrap(Pre.top_left)[2] = PrefixBits
    /\ Unwrap(Pre.top_left)[1] # Unwrap(Pre.top_right)[1]
    /\ \E i \in 1..Len(last.out) : IsShorthand(last.out[i])

(***************************************************************************)
(* C10: in flush, with no targets configured, every corner whose prefix    *)
(* set is nonempty after the common intersection was subtracted is emitted *)
(* as one longhand with exactly the remaining prefixes, after the combined *)
(* shorthand, and a corner with nothing remaining emits nothing.  Top-left *)
(* 1px unprefixed and -webkit-, the other three 1px unprefixed, gives      *)
(* border-radius:1px (unprefixed) then -webkit-border-top-left-radius:1px. *)
(***************************************************************************)
C10_RemainderLonghands ==
    /\ (FlushedPre /\ targets = None) =>
        \A p \in Corners :
            LET own == {i \in 1..Len(Emitted) : Emitted[i].kind = LonghandKind(p)}
            IN IF Remaining(Pre, p) # {}
               THEN /\ Cardinality(own) = 1
                    /\ \A i \in own :
                          /\ Emitted[i] = Longhand(p, Unwrap(Pre[p])[1], Remaining(Pre, p))
                          /\ \A j \in 1..Len(Emitted) : IsShorthand(Emitted[j]) => j < i
               ELSE own = {}
    /\ (/\ Finalized
        /\ Pre = [New(None) EXCEPT !.top_left = Some(<<"1px", {"None", "WebKit"}>>),
                                   !.top_right = Some(<<"1px", {"None"}>>),
                                   !.bottom_left = Some(<<"1px", {"None"}>>),
                                   !.bottom_right = Some(<<"1px", {"None"}>>)]) =>
        last.out = <<Shorthand(BorderRadius("1px", "1px", "1px", "1px"), {"None"}),
                     Longhand("top_left", "1px", {"WebKit"})>>

\* the example of the claim
C10_Witness ==
    /\ Finalized
    /\ targets = None
    /\ Pre.decls = <<>>
    /\ Pre.top_left = Some(<<"1px", {"None", "WebKit"}>>)
    /\ \A p \in Corners \ {"top_left"} : Pre[p] = Some(<<"1px", {"None"}>>)
    /\ Len(last.out) = 2

(***************************************************************************)
(* C11: with browser targets configured, a prefix set about to be emitted  *)
(* by flush (the shorthand's intersection or a corner's remainder) that    *)
(* contains the unprefixed bit is replaced in the emitted declaration by   *)
(* the set the target lookup returns for that feature; a set without the   *)
(* unprefixed bit, or any set when no targets are configured, is emitted   *)
(* unchanged.                                                              *)
(***************************************************************************)
C11_TargetsReplacePrefix ==
    FlushedPre =>
        LET Out(feature, acc) ==
                IF "None" \in acc /\ IsSome(targets)
                THEN PrefixesFor(feature, Unwrap(targets))
                ELSE acc
        IN /\ Combines(Pre) =>
                 \E i \in 1..Len(Emitted) :
                    /\ IsShorthand(Emitted[i])
                    /\ Emitted[i].vp = Out("BorderRadius", Common(Pre))
           /\ \A i \in 1..Len(Emitted) :
                 IsShorthand(Emitted[i]) =>
                    Emitted[i].vp = Out("BorderRadius", Common(Pre))
           /\ \A p \in Corners :
                 /\ Remaining(Pre, p) # {} =>
                       \E i \in 1..Len(Emitted) :
                          /\ Emitted[i].kind = LonghandKind(p)
                          /\ Emitted[i].vp = Out(LonghandKind(p), Remaining(Pre, p))
                 /\ \A i \in 1..Len(Emitted) :
                       Emitted[i].kind = LonghandKind(p) =>
                          Emitted[i].vp = Out(LonghandKind(p), Remaining(Pre, p))

\* targets configured, four corners pending whose only common prefix is the
\* unprefixed bit, one corner with -webkit- left over: the shorthand carries
\* the looked-up set, the leftover longhand its accumulated -webkit-
C11_Witness ==
    /\ Finalized
    /\ IsSome(targets)
    /\ Combines(Pre)
    /\ Common(Pre) = {"None"}
    /\ \E i \in 1..Len(last.out) :
          /\ IsShorthand(last.out[i])
          /\ last.out[i].vp = PrefixesFor("BorderRadius", Unwrap(targets))
          /\ last.out[i].vp # Common(Pre)
    /\ \E p \in Corners : \E i \in 1..Len(last.out) :
          /\ Remaining(Pre, p) = {"WebKit"}
          /\ last.out[i].kind = LonghandKind(p)
          /\ last.out[i].val = Unwrap(Pre[p])[1]
          /\ last.out[i].vp = {"WebKit"}

(***************************************************************************)
(* C12: flush on a handler with no pending corner and an empty side buffer *)
(* appends nothing; after finalize no corner is pending and the side       *)
(* buffer and the output buffer are empty, so a finalize that follows at   *)
(* once returns the empty list.                                            *)
(***************************************************************************)
C12_FinalizeLeavesEmpty ==
    /\ Finalized =>
          /\ \A p \in Corners : Self[p] = None
          /\ logical = <<>>
          /\ decls = <<>>
    /\ (FlushedPre /\ (\A p \in Corners : Pre[p] = None) /\ Pre.logical = <<>>) =>
          Emitted = <<>>
    /\ (Finalized /\ Pre = New(targets)) => last.out = <<>>

\* a finalize that found the handler as a finalize leaves it, after at
\* least one declaration was handed in
C12_Witness ==
    /\ Finalized
    /\ ncalls >= 1
    /\ Pre = New(targets)
    /\ last.out = <<>>
    /\ Self = New(targets)

(***************************************************************************)
(* Vocabulary of the OutlineHandler properties.                            *)
(***************************************************************************)
OutlineParts == {"width", "style", "color"}
OutlineFinalized == oLast.op = "finalize"

\* declaration d of the block sets part q of the outline
SetsPart(d, q) ==
    \/ d.kind = "Outline"
    \/ d.kind = "OutlineColor" /\ q = "color"
    \/ d.kind = "OutlineStyle" /\ q = "style"
    \/ d.kind = "OutlineWidth" /\ q = "width"

\* the value declaration d gives part q
PartVal(d, q) == IF d.kind = "Outline" THEN d.val[q] ELSE d.val

\* the positions in the block of the declarations that set part q
Setters(q) == {i \in 1..Len(oBlock) : SetsPart(oBlock[i], q)}

\* the position of the most recent declaration of part q
LastSetter(q) == CHOOSE i \in Setters(q) : \A j \in Setters(q) : j <= i

(***************************************************************************)
(* C13: when width, style and color were each declared since the last      *)
(* finalize, in any order and through longhands or the outline shorthand,  *)
(* finalize returns exactly one combined outline declaration holding the   *)
(* most recently declared value of each part, and no longhand.  The block  *)
(* outline-color:red, outline-style:solid, outline-width:2px gives the one *)
(* declaration outline: 2px solid red.                                     *)
(***************************************************************************)
C13_OutlineCombines ==
    /\ (OutlineFinalized /\ \A q \in OutlineParts : Setters(q) # {}) =>
          /\ Len(oLast.out) = 1
          /\ oLast.out[1].kind = "Outline"
          /\ \A q \in OutlineParts :
                oLast.out[1].val[q] = PartVal(oBlock[LastSetter(q)], q)
    /\ (/\ OutlineFinalized
        /\ Len(oBlock) = 3
        /\ oBlock[1].kind = "OutlineColor" /\ oBlock[1].val = "red"
        /\ oBlock[2].kind = "OutlineStyle" /\ oBlock[2].val = "solid"
        /\ oBlock[3].kind = "OutlineWidth" /\ oBlock[3].val = "2px") =>
          /\ Len(oLast.out) = 1
          /\ oLast.out[1].kind = "Outline"
          /\ oLast.out[1].val = GenericBorder("2px", "solid", "red")

\* a shorthand, then a longhand that redeclares the color with another value,
\* then finalize: the one combined outline holds the later color and the
\* shorthand's width and style
C13_Witness ==
    /\ OutlineFinalized
    /\ Len(oBlock) = 2
    /\ oBlock[1].kind = "Outline"
    /\ oBlock[2].kind = "OutlineColor"
    /\ oBlock[2].val # oBlock[1].val.color
    /\ Len(oLast.out) = 1
    /\ oLast.out[1].kind = "Outline"
    /\ oLast.out[1].val =
          GenericBorder(oBlock[1].val.width, oBlock[1].val.style, oBlock[2].val)

\* the part an emitted longhand declares
PartOf(d) ==
    CASE d.kind = "OutlineColor" -> "color"
      [] d.kind = "OutlineStyle" -> "style"
      [] d.kind = "OutlineWidth" -> "width"

\* the position in the block of the declaration an emitted longhand stems
\* from: the most recent declaration of its part
StemsFrom(d) == LastSetter(PartOf(d))

(***************************************************************************)
(* C14: the output of the merge engine respects the order of its input:    *)
(* any two declarations finalize returns that stem from two different      *)
(* declarations of the block appear in the order in which those two        *)
(* declarations arrived (stated here for OutlineHandler).                  *)
(***************************************************************************)
C14_OutputKeepsArrivalOrder ==
    OutlineFinalized =>
        \A i, j \in 1..Len(oLast.out) :
            (/\ i < j
             /\ oLast.out[i].kind # "Outline"
             /\ oLast.out[j].kind # "Outline"
             /\ StemsFrom(oLast.out[i]) # StemsFrom(oLast.out[j])) =>
                StemsFrom(oLast.out[i]) < StemsFrom(oLast.out[j])

(***************************************************************************)
(* Vocabulary of the Position properties.                                  *)
(***************************************************************************)
\* a bare length on one axis paired with a side keyword plus offset on the other
AnchorAmbiguous(v) ==
    \/ v.x.tag = "Length" /\ v.y.tag = "Side" /\ IsSome(v.y.lp)
    \/ v.x.tag = "Side" /\ IsSome(v.x.lp) /\ v.y.tag = "Length"

IsBareLength(c) == c.tag = "Length"
IsHalf(c) == c.tag = "Length" /\ c.lp = <<"50%">>
IsSideOnly(c) == c.tag = "Side" /\ c.lp = None
IsSideOffset(c) == c.tag = "Side" /\ c.lp # None

(***************************************************************************)
(* C15: for every Position P other than those that pair a bare length on   *)
(* one axis with a side keyword plus offset on the other, parsing the text *)
(* to_css writes for P gives a Position equal to P.                        *)
(***************************************************************************)
C15_PositionRoundTrip ==
    (pPc = "reparsed" /\ ~AnchorAmbiguous(Unwrap(pValue))) =>
        /\ pReparsed.ok
        /\ pReparsed.val = pValue

(***************************************************************************)
(* C16: when the first token is `center` or a bare length-offset and the   *)
(* second-axis parse fails, Position::parse retries with the first value   *)
(* as the vertical position and the second parsed as the horizontal one,   *)
(* so that a following horizontal side keyword is consumed as the          *)
(* horizontal component for both kinds of first token.                     *)
(***************************************************************************)
C16_RetryForCenterAndLength ==
    (/\ pPc = "parsed"
     /\ Len(pInput) >= 2
     /\ pInput[1] \in {"center"} \cup LengthPercentages
     /\ pInput[2] \in HorizontalPositionKeyword) =>
        /\ pResult.ok
        /\ pResult.pos > 2
        /\ Unwrap(pResult.val).x.tag = "Side"
        /\ Unwrap(pResult.val).x.side = pInput[2]
        /\ Unwrap(pResult.val).y =
              IF pInput[1] = "center" THEN Center ELSE Length(pInput[1])

(***************************************************************************)
(* C16 (amended): the retry exists for `center` only.  After a first token *)
(* `center` the natural order is tried first, and when the second-axis     *)
(* parse fails the second value is parsed as the horizontal position with  *)
(* y = center, so a following horizontal side keyword (and its offset) is  *)
(* consumed as x.  After a first token that is a bare length-offset there  *)
(* is no retry: the length is always x, and a following horizontal side    *)
(* keyword is not consumed (y = center, the cursor stays before it).       *)
(***************************************************************************)
C16_RetryForCenterOnly ==
    (pPc = "parsed" /\ Len(pInput) >= 1) =>
        LET t1 == pInput[1]
            t2 == Tok(pInput, 2)
            t3 == Tok(pInput, 3)
            v == Unwrap(pResult.val)
        IN /\ (t1 = "center" /\ t2 \in HorizontalPositionKeyword) =>
                 /\ pResult.ok
                 /\ v.y = Center
                 /\ v.x = Side(t2, IF t3 \in LengthPercentages THEN Some(t3) ELSE None)
                 /\ pResult.pos = IF t3 \in LengthPercentages THEN 4 ELSE 3
           /\ (t1 = "center" /\ t2 \in VerticalPositionKeyword) =>
                 /\ pResult.ok
                 /\ v.x = Center
                 /\ v.y = Side(t2, IF t3 \in LengthPercentages THEN Some(t3) ELSE None)
           /\ t1 \in LengthPercentages =>
                 /\ pResult.ok
                 /\ v.x = Length(t1)
           /\ (t1 \in LengthPercentages /\ t2 \in HorizontalPositionKeyword) =>
                 /\ v.y = Center
                 /\ pResult.pos = 2

\* `10px left`: x is the length, y is center, `left` is still in the stream
C16_Witness ==
    /\ pPc = "parsed"
    /\ pInput = <<"10px", "left">>
    /\ pResult = Ok(Position(Length("10px"), Center), 2)

(***************************************************************************)
(* C17: Position::to_css leaves a 50% out, as it does `center`, only when  *)
(* the opposite axis is a bare length or a side keyword without offset;    *)
(* when one axis is a bare length (50% included) and the other a side      *)
(* keyword with offset, the text holds both components and the anchor      *)
(* keyword: `left` before a horizontal length, `top` before a vertical one.*)
(***************************************************************************)
C17_HalfOmittedAnchorKept ==
    pPc = "printed" =>
        LET v == Unwrap(pValue)
            x_pos == PositionComponentToCss(v.x, pMinify)
            y_pos == PositionComponentToCss(v.y, pMinify)
        IN \* the anchor is explicit and both components are printed
           /\ (IsBareLength(v.x) /\ IsSideOffset(v.y)) =>
                 pText = <<"left">> \o x_pos \o y_pos
           /\ (IsSideOffset(v.x) /\ IsBareLength(v.y)) =>
                 pText = x_pos \o <<"top">> \o y_pos
           \* a 50% is left out only opposite a bare length or a bare side
           /\ (IsHalf(v.y) /\ pText = x_pos) =>
                 IsBareLength(v.x) \/ IsSideOnly(v.x)
           \* (a lone length token is the horizontal component, not the vertical)
           /\ (IsHalf(v.x) /\ pText = y_pos /\ y_pos # x_pos) =>
                 IsBareLength(v.y) \/ IsSideOnly(v.y)
           \* and there it is left out like `center`
           /\ (IsHalf(v.y) /\ (IsBareLength(v.x) \/ IsSideOnly(v.x))) =>
                 pText = PositionToCss(Position(v.x, Center), pMinify)
           /\ (IsHalf(v.x) /\ IsSideOnly(v.y)) =>
                 pText = PositionToCss(Position(Center, v.y), pMinify)

\* x = 50% against y = top 10px: the 50% is printed behind the `left` anchor
C17_Witness ==
    /\ pPc = "printed"
    /\ pValue = Some(Position(Length("50%"), Side("top", Some("10px"))))
    /\ pText = <<"left", "50%", "top", "10px">>

(***************************************************************************)
(* Vocabulary of the transform properties.                                 *)
(***************************************************************************)
\* every function of the list has a matrix
Convertible(list) == \A i \in 1..Len(list) : IsSome(TransformToMatrix(list[i]))

\* M(f): the matrix of a function that has one
M(f) == Unwrap(TransformToMatrix(f))

\* total = M(f1); total = total.multiply(M(f2)); ... up to the n-th function
RECURSIVE RightProduct(_, _)
RightProduct(list, n) ==
    IF n = 1 THEN M(list[1])
    ELSE Multiply(RightProduct(list, n - 1), M(list[n]))

\* total = M(f1); total = M(f2).multiply(total); ... up to the n-th function
RECURSIVE LeftProduct(_, _)
LeftProduct(list, n) ==
    IF n = 1 THEN M(list[1])
    ELSE Multiply(M(list[n]), LeftProduct(list, n - 1))

(***************************************************************************)
(* C18: the fold of a transform list [f1, ..., fn] accumulates by          *)
(* right-multiplication: total = M(f1), then total = total.multiply(M(fk)) *)
(* for each later function, so the fold of [f1, f2] is                     *)
(* M(f1).multiply(M(f2)).                                                  *)
(***************************************************************************)
C18_FoldRightMultiplies ==
    (tPc = "folded" /\ tList # <<>> /\ Convertible(tList)) =>
        tMatrix = Some(RightProduct(tList, Len(tList)))

(***************************************************************************)
(* C18 (amended): the fold accumulates by left-multiplication: total =     *)
(* M(f1), then total = M(fk).multiply(total) for each later function, so   *)
(* the fold of [f1, f2] is M(f2).multiply(M(f1)).                          *)
(***************************************************************************)
C18_FoldLeftMultiplies ==
    (tPc = "folded" /\ tList # <<>> /\ Convertible(tList)) =>
        /\ tMatrix = Some(LeftProduct(tList, Len(tList)))
        /\ Len(tList) = 2 => tMatrix = Some(Multiply(M(tList[2]), M(tList[1])))

\* translate(1px, 1px) scale(2): the two products differ
C18_Witness ==
    /\ tPc = "folded"
    /\ tList = <<Translate(Px(1), Px(1)), Scale(2, 2)>>
    /\ tMatrix = Some(Multiply(MatrixScale(2, 2, 1), MatrixTranslate(1, 1, 0)))
    /\ tMatrix # Some(Multiply(MatrixTranslate(1, 1, 0), MatrixScale(2, 2, 1)))

(***************************************************************************)
(* C19: TransformList::to_matrix returns None when any function of the     *)
(* list has no matrix (a translate with a percentage, or with a length     *)
(* that does not resolve to px), wherever the function sits; minified      *)
(* serialization then writes the original list function by function, with  *)
(* no decomposed and no matrix candidate.                                  *)
(***************************************************************************)
C19_FoldAllOrNothing ==
    /\ tPc \in {"folded", "printed"} =>
          (tMatrix = None <=> ~Convertible(tList))
    /\ (tPc = "printed" /\ tMinify /\ ~Convertible(tList)) =>
          /\ tText.form = "base"
          /\ tText.list = tList

\* two functions with a matrix, then a translate by a length in em, minified
C19_Witness ==
    /\ tPc = "printed"
    /\ tMinify
    /\ Len(tList) = 3
    /\ IsSome(TransformToMatrix(tList[1]))
    /\ IsSome(TransformToMatrix(tList[2]))
    /\ tList[3].kind = "Translate"
    /\ tList[3].args = <<Px(1), Em(1)>>
    /\ tMatrix = None
    /\ tText.form = "base"
    /\ tText.list = tList

(***************************************************************************)
(* C20: for every matrix M whose determinant is 0, M.inverse() returns     *)
(* None and M.decompose() returns None.                                    *)
(***************************************************************************)
C20_SingularHasNoInverseNoDecomposition ==
    (tPc = "decomposed" /\ Determinant(tSelf) = 0) =>
        /\ tInverse = None
        /\ tDecomposed = None

\* the locals of decompose a property speaks of: the normalized matrix,
\* the perspective-cleared matrix, and the right-hand side of the solve
Normalized(self) == ScaleByFactor(self, Reciprocal(self.m44))
Cleared(matrix) == [matrix EXCEPT !.m14 = 0, !.m24 = 0, !.m34 = 0, !.m44 = 1]
RightHandSide(matrix) == <<matrix.m14, matrix.m24, matrix.m34, matrix.m44>>

(***************************************************************************)
(* C21: in decompose, when a perspective entry (m14, m24, m34) of the      *)
(* normalized matrix is nonzero, the perspective vector is solved through  *)
(* the inverse-transpose of the perspective-cleared matrix; the            *)
(* decomposition is accepted whenever the first two components of that     *)
(* vector are zero, and then begins with perspective(-1/value), and fails  *)
(* otherwise.  (The vector is kept times the determinant inv.den.)         *)
(***************************************************************************)
C21_PerspectiveAcceptedOnFirstTwo ==
    (tPc = "decomposed" /\ tSelf.m44 # 0) =>
        \A matrix \in {Normalized(tSelf)} :
            (Determinant(Cleared(matrix)) # 0 /\ HasPerspective(matrix)) =>
                \A inv \in {Unwrap(Inverse(Cleared(matrix)))} :
                    \A pv \in {MultiplyVector(Transpose(inv.num), RightHandSide(matrix))} :
                        IF pv[1] = 0 /\ pv[2] = 0
                        THEN /\ IsSome(tDecomposed)
                             /\ Unwrap(tDecomposed)[1].kind = "Perspective"
                             /\ Unwrap(tDecomposed)[1].args[1]
                                    = Px([num |-> -inv.den, den |-> pv[3]])
                        ELSE tDecomposed = None

\* a matrix equal to the identity except for a nonzero translation row
PureTranslation(self) ==
    /\ self = MatrixTranslate(self.m41, self.m42, self.m43)
    /\ (self.m41 # 0 \/ self.m42 # 0 \/ self.m43 # 0)

(***************************************************************************)
(* C22: a pure translation matrix decomposes to exactly one step: for a    *)
(* matrix equal to the identity except for a nonzero translation row       *)
(* (tx, ty, tz), decompose returns the one-element list                    *)
(* [translate3d(tx px, ty px, tz px)], with no skew, scale or rotate step. *)
(***************************************************************************)
C22_PureTranslationOneStep ==
    (tPc = "decomposed" /\ PureTranslation(tSelf)) =>
        /\ IsSome(tDecomposed)
        /\ Len(Unwrap(tDecomposed)) = 1
        /\ Unwrap(tDecomposed)[1].kind = "Translate3d"
        /\ Unwrap(tDecomposed)[1].args = <<Px(tSelf.m41), Px(tSelf.m42), Px(tSelf.m43)>>

C22_Witness ==
    /\ tPc = "decomposed"
    /\ tSelf = MatrixTranslate(1, 1, 0)
    /\ Len(Unwrap(tDecomposed)) = 1
    /\ Unwrap(tDecomposed)[1].kind = "Translate3d"
    /\ Unwrap(tDecomposed)[1].args = <<Px(1), Px(1), Px(0)>>

\* a folded matrix without out-of-plane components: nothing in the z row
\* and column but the 1 on the diagonal, and no perspective
InPlane(m) ==
    /\ m.m13 = 0 /\ m.m23 = 0 /\ m.m31 = 0 /\ m.m32 = 0 /\ m.m43 = 0 /\ m.m33 = 1
    /\ m.m14 = 0 /\ m.m24 = 0 /\ m.m34 = 0 /\ m.m44 = 1

\* the matrix literal of a folded matrix: matrix(a,b,c,d,e,f) in the plane,
\* matrix3d of the sixteen entries otherwise
Literal(m) ==
    IF InPlane(m)
    THEN "matrix(" \o NumbersToCss(<<m.m11, m.m12, m.m21, m.m22, m.m41, m.m42>>, 1, TRUE)
            \o ")"
    ELSE "matrix3d(" \o NumbersToCss(Matrix3dEntries(m), 1, TRUE) \o ")"

\* the candidates of the minified serialization in the order of
\* preference: the simplified original list, the decomposed list when the
\* decomposition succeeds, the matrix literal
Candidates(list, m) ==
    CHOOSE c \in {<<ToCssBase(list, TRUE)>>
                    \o (IF IsSome(d) THEN <<ToCssBase(Unwrap(d), TRUE)>> ELSE <<>>)
                    \o <<Literal(m)>> : d \in {Decompose(m)}} : TRUE

\* the first candidate that no other candidate is shorter than
FirstShortest(c) ==
    CHOOSE i \in 1..Len(c) :
        \A j \in 1..Len(c) :
            /\ Len(c[i]) <= Len(c[j])
            /\ (j < i => Len(c[i]) < Len(c[j]))

Printed == tText.list[1]
PrintedArg(i) == Printed.args[i]

(***************************************************************************)
(* C24: in minify mode a three-argument translate or scale whose z operand *)
(* is the identity value is never printed in its 3d form: Scale3d(x, x, 1) *)
(* prints scale(x), Scale3d(x, y, 1) prints scaleX(x), scaleY(y) or        *)
(* scale(x,y), Translate3d(x, 0, 0) with x != 0 prints translate(x),       *)
(* Translate3d(x, y, 0) prints translateY(y) or translate(x,y).  Without   *)
(* minify the 3d form is always kept.                                      *)
(***************************************************************************)
C24_IdentityZDropsThe3dForm ==
    (tPc = "written") =>
        /\ (tMinify /\ Printed.kind = "Scale3d" /\ PrintedArg(3) = 1) =>
              \E x \in {PrintedArg(1)}, y \in {PrintedArg(2)} :
                 tText.text =
                    (IF x = y THEN "scale(" \o NumberToCss(x) \o ")"
                     ELSE IF y = 1 THEN "scaleX(" \o NumberToCss(x) \o ")"
                     ELSE IF x = 1 THEN "scaleY(" \o NumberToCss(y) \o ")"
                     ELSE "scale(" \o NumberToCss(x) \o "," \o NumberToCss(y) \o ")")
        /\ (tMinify /\ Printed.kind = "Translate3d" /\ IsZero(PrintedArg(3))) =>
              \E x \in {PrintedArg(1)}, y \in {PrintedArg(2)} :
                 tText.text =
                    (IF ~IsZero(x) /\ IsZero(y) THEN "translate(" \o LengthToCss(x) \o ")"
                     ELSE IF IsZero(x) /\ ~IsZero(y)
                     THEN "translateY(" \o LengthToCss(y) \o ")"
                     ELSE "translate(" \o LengthToCss(x) \o "," \o LengthToCss(y) \o ")")
        /\ (~tMinify /\ Printed.kind = "Scale3d") =>
              tText.text = "scale3d(" \o NumberToCss(PrintedArg(1)) \o Delim(FALSE)
                              \o NumberToCss(PrintedArg(2)) \o Delim(FALSE)
                              \o NumberToCss(PrintedArg(3)) \o ")"
        /\ (~tMinify /\ Printed.kind = "Translate3d") =>
              tText.text = "translate3d(" \o LengthToCss(PrintedArg(1)) \o Delim(FALSE)
                              \o LengthToCss(PrintedArg(2)) \o Delim(FALSE)
                              \o LengthToCss(PrintedArg(3)) \o ")"

\* scale3d(2,2,1) minifies to scale(2)
C24_Witness ==
    /\ tPc = "written"
    /\ tMinify
    /\ Printed.kind = "Scale3d"
    /\ Printed.args = <<2, 2, 1>>
    /\ tText.text = "scale(2)"

\* the rotate3d steps of the decomposition in hand
RotateSteps ==
    IF IsSome(tDecomposed)
    THEN {i \in 1..Len(Unwrap(tDecomposed)) : Unwrap(tDecomposed)[i].kind = "Rotate3d"}
    ELSE {}
Axis(i) == SubSeq(Unwrap(tDecomposed)[i].args, 1, 3)

(***************************************************************************)
(* C25: in every rotate3d step emitted by decompose the rotation axis has  *)
(* been divided by its component of largest magnitude: the three emitted   *)
(* axis components are finite and the dominant one is 1, also when the     *)
(* dominant component of the axis is negative.                             *)
(***************************************************************************)
C25_AxisFiniteDominantOne ==
    (tPc = "decomposed") =>
        \A i \in RotateSteps :
            /\ \A k \in 1..3 : Axis(i)[k].class = "finite"
            /\ \E k \in 1..3 :
                  /\ Axis(i)[k].value = 1
                  /\ \A j \in 1..3 : Axis(i)[j].value \in -1..1

\* physical declaration d sets corner c under prefix bit b
Covers(d, c, b) ==
    /\ IsPhysical(d)
    /\ (IsShorthand(d) \/ d.kind = LonghandKind(c))
    /\ b \in d.vp

\* the positions of a declaration list that cover (c, b), and the last one
Covering(list, c, b) == {i \in 1..Len(list) : Covers(list[i], c, b)}
LastOf(S) == CHOOSE m \in S : \A i \in S : i <= m

(***************************************************************************)
(* C26: cascade preservation without browser targets: for every block of   *)
(* physical border-radius longhand and shorthand declarations, and every   *)
(* corner c and prefix bit b declared for c, the last declaration of the   *)
(* finalized output that covers (c, b) carries the value of the last       *)
(* declaration of the block that covers (c, b); and no value is emitted    *)
(* under a prefix for which it was never declared.                         *)
(***************************************************************************)
C26_CascadePreserved ==
    (Finalized /\ targets = None /\ \A i \in 1..Len(block) : IsPhysical(block[i])) =>
        \A c \in Corners, b \in PrefixBits :
            \E ins \in {Covering(block, c, b)}, outs \in {Covering(last.out, c, b)} :
                /\ ins # {} =>
                      /\ outs # {}
                      /\ ValFor(last.out[LastOf(outs)], c) = ValFor(block[LastOf(ins)], c)
                /\ \A o \in outs :
                      \E i \in ins : ValFor(block[i], c) = ValFor(last.out[o], c)

(***************************************************************************)
(* Vocabulary of a block whose declarations go to both handlers.           *)
(***************************************************************************)
BorderRadiusOwned == LonghandKinds \cup LogicalKinds \cup {"BorderRadius"}
OutlineOwned == {"OutlineColor", "OutlineStyle", "OutlineWidth", "Outline"}
OutlineHandled == oLast.op = "handle_property"
OutlineArg == Unwrap(oLast.arg)
OutlinePre == oLast.pre

(***************************************************************************)
(* C27: handle_property returns true exactly for the property kinds the    *)
(* handler owns, and on a kind it does not own it leaves the whole handler *)
(* unchanged: the four pending corners, the side buffer and the output     *)
(* buffer of BorderRadiusHandler; width, style and color of                *)
(* OutlineHandler.                                                         *)
(***************************************************************************)
C27_UnownedLeftAlone ==
    /\ Handled =>
          /\ last.handled = (Arg.kind \in BorderRadiusOwned)
          /\ Arg.kind \notin BorderRadiusOwned => Self = Pre
    /\ OutlineHandled =>
          /\ oLast.handled = (OutlineArg.kind \in OutlineOwned)
          /\ OutlineArg.kind \notin OutlineOwned => OutlineSelf = OutlinePre

\* both handlers hold pending values and each was handed a declaration of the
\* other: the border-radius handler an outline part, and before that the
\* outline handler a corner
C27_Witness ==
    /\ Handled /\ OutlineHandled
    /\ Arg.kind \in OutlineOwned
    /\ ~last.handled /\ oLast.handled
    /\ IsSome(Pre.top_left)
    /\ Len(block) = 3
    /\ block[2].kind \in LonghandKinds
    /\ IsSome(OutlinePre.color)

(***************************************************************************)
(* Vocabulary of the border-radius value properties.                       *)
(***************************************************************************)
Least(a, b) == IF a < b THEN a ELSE b

\* the radii of a stream that one Rect takes, from position pos on
RadiiAt(input, pos) ==
    LET rest == SubSeq(input, pos, Len(input))
    IN SubSeq(rest, 1, Least(LeadingVals(rest), Len(RectAll(0))))

\* the horizontal radii written, and the vertical ones: those after the `/`,
\* or the horizontal ones when there is no `/`
HorizontalRadii == RadiiAt(bInput, 1)
VerticalRadii ==
    LET after == Len(HorizontalRadii) + 1
    IN IF after <= Len(bInput) /\ bInput[after] = Slash
       THEN RadiiAt(bInput, after + 1)
       ELSE HorizontalRadii

RadiusParsed == bPc # "start" /\ bResult.ok

(***************************************************************************)
(* C28: the values of the border-radius shorthand go to the corners in the *)
(* order top-left, top-right, bottom-right, bottom-left, after the quad    *)
(* expansion of one to four values: of `a b`, top-left and bottom-right    *)
(* get a, top-right and bottom-left get b; of `a b c`, bottom-right gets c *)
(* and bottom-left b; of `a b c d`, bottom-right gets c and bottom-left d. *)
(* The vertical radii after `/` go the same way.                           *)
(***************************************************************************)
C28_CornersInQuadOrder ==
    RadiusParsed =>
       LET widths == QuadExpand(HorizontalRadii)
           heights == QuadExpand(VerticalRadii)
           parsed == Unwrap(bResult.val)
       IN /\ parsed.top_left = Size2D(widths[1], heights[1])
          /\ parsed.top_right = Size2D(widths[2], heights[2])
          /\ parsed.bottom_right = Size2D(widths[3], heights[3])
          /\ parsed.bottom_left = Size2D(widths[4], heights[4])

(***************************************************************************)
(* Vocabulary of the is_center property.                                   *)
(***************************************************************************)
\* one axis denotes the centre: the keyword, or the length-percentage 50%
AxisIsCenter(c) == c.tag = "Center" \/ (c.tag = "Length" /\ c.lp = Some("50%"))

Asked == pPc = "asked"

(***************************************************************************)
(* C29: Position::is_center returns true exactly for the positions in      *)
(* which each axis on its own denotes the centre, by the keyword `center`  *)
(* or by the length-percentage 50%, the mixed positions (center, 50%) and  *)
(* (50%, center) included, and false for every other position.            *)
(***************************************************************************)
C29_IsCenterPerAxis ==
    Asked =>
       Unwrap(pCenter) = (AxisIsCenter(Unwrap(pValue).x) /\ AxisIsCenter(Unwrap(pValue).y))

(***************************************************************************)
(* Vocabulary of the keyframes properties.                                 *)
(***************************************************************************)
KeyframesPrinted == kPc = "printed"

\* the positions of the pieces that open an at-rule, and the prefix text each
\* is followed by
RuleStarts == {i \in 1..Len(kText) : kText[i] = "@"}
StartedWith(prefixText) == {i \in RuleStarts : kText[i + 1] = prefixText}

(***************************************************************************)
(* C30: serializing a KeyframesRule writes exactly one @keyframes block    *)
(* for each vendor-prefix bit of the rule's prefix set (unprefixed,        *)
(* WebKit, Moz, O, Ms), every prefixed block before the unprefixed one; so *)
(* a rule with a nonempty prefix set is never serialized to empty text and *)
(* no prefix of the set is dropped.                                        *)
(***************************************************************************)
C30_OneBlockPerPrefix ==
    KeyframesPrinted =>
       /\ \A bit \in AllPrefixBits :
             Cardinality(StartedWith(PrefixToCss(bit)))
                = IF bit \in kRule.vendor_prefix THEN 1 ELSE 0
       /\ \A i \in StartedWith(PrefixToCss("None")) : \A j \in RuleStarts : j <= i
       /\ kRule.vendor_prefix # {} => kText # <<>>

====
